---- MODULE Spec2Model ----
(***************************************************************************)
(* Model of the mersey-job-scraper repository.                             *)
(*                                                                         *)
(*   - the row walk of mainScraper (page.evaluate callback), the dedupe /  *)
(*     persist loop, the report and the catch handler                      *)
(*     (src/unnamed/part_000);                                             *)
(*   - the retry wrapper (src/index.js).                                   *)
(*                                                                         *)
(* Texts are TLA+ strings; the regular expressions of the source are       *)
(* operators over their characters.                                        *)
(***************************************************************************)
EXTENDS Integers, Sequences, FiniteSets, TLC

(***************************************************************************)
(* Bounds of the model.                                                    *)
(***************************************************************************)
MaxRows == 3
MaxSnapshotRows == 3
MaxRuns == 2
MaxFailures == 1
MaxAttempts == 4
MaxCalls == 2
MaxDays == 1
MaxOverlapRows == 2
MaxBatches == 2

(***************************************************************************)
(* State.                                                                  *)
(***************************************************************************)
VARIABLES
    rows,           \* the table: document.querySelectorAll('table tr')
    rowIdx,         \* position of the walk's for loop
    currentDate,    \* let currentDate
    currentEvent,   \* let currentEvent
    results,        \* const results
    emitted         \* history: the row (kind, position) that pushed each result

walkVars == <<rowIdx, currentDate, currentEvent, results, emitted>>

VARIABLES
    attempts,       \* retry: the attempts option
    baseDelay,      \* retry: the baseDelay option
    hasOnRetry,     \* retry: typeof onRetry === 'function'
    retryI,         \* retry: let i
    retryPc,        \* retry: "call", "sleep", "returned" or "raised"
    fnCalls,        \* history: outcome of each call of fn, "ok" or its error
    observed,       \* history: the arguments of each onRetry call
    sleeps,         \* history: the delay of each completed sleep
    retryResult     \* what retry gave its caller

retryVars == <<attempts, baseDelay, hasOnRetry, retryI, retryPc, fnCalls,
               observed, sleeps, retryResult>>

VARIABLES
    pc,             \* per run: position in mainScraper
    jobs,           \* per run: const jobs
    idx,            \* per run: position of the loop over jobs (1-based)
    newJobs,        \* per run: const newJobs
    outcome,        \* per run: the error in flight, then the value returned
    exitCode,       \* per run: argument of process.exit
    store,          \* collection scraped_doctor_jobs: jobId -> document
    checks,         \* history: every getDoc call
    writes,         \* history: every setDoc call
    dispatched,     \* history: every sendTelegram call
    delivery,       \* per run: how its sendTelegram call ended
    failures        \* number of external calls that failed so far

mainVars == <<pc, jobs, idx, newJobs, outcome, exitCode, store, checks, writes,
              dispatched, delivery, failures>>

VARIABLES
    triples,        \* createJobId: the (date, event, doctor) of two calls
    jobIds,         \* createJobId: the value of each call, "" before it
    rawText,        \* extractDateOnly: the rawText argument
    now,            \* extractDateOnly: the now argument
    wallClock,      \* the calendar date new Date() gives at this moment
    extracted,      \* history: the wall clock and the value of each call
    scraper         \* runScraper and its entrypoint: the state of one process

callVars == <<triples, jobIds, rawText, now, wallClock, extracted, scraper>>

vars == <<rows, walkVars, retryVars, mainVars, callVars>>

(***************************************************************************)
(* Program constants.                                                      *)
(***************************************************************************)
TARGET_ROLE == "Doctor"
UNKNOWN_DATE == "Unknown Date"
UNKNOWN_EVENT == "Unknown Event"
UNASSIGNED == "Unassigned"
RETRY_ATTEMPTS == 3
RETRY_BASE_DELAY == 500

(***************************************************************************)
(* Characters and strings.                                                 *)
(***************************************************************************)
UpperChars == "ABCDEFGHIJKLMNOPQRSTUVWXYZ"
LowerChars == "abcdefghijklmnopqrstuvwxyz"
Digits == {"0", "1", "2", "3", "4", "5", "6", "7", "8", "9"}
WhiteSpace == {" ", "\t"}

\* s[i] of JavaScript, 1-based; the empty string outside the text
Ch(s, i) == IF i >= 1 /\ i <= Len(s) THEN SubSeq(s, i, i) ELSE ""

IsDigit(c) == c \in Digits
IsSpace(c) == c \in WhiteSpace

\* the lower-case letter of each upper-case letter
LowerOf ==
    [c \in {Ch(UpperChars, i) : i \in 1..26} |->
        Ch(LowerChars, CHOOSE i \in 1..26 : Ch(UpperChars, i) = c)]

LowerCh(c) == IF c \in DOMAIN LowerOf THEN LowerOf[c] ELSE c

RECURSIVE LowerFrom(_, _)
LowerFrom(s, i) ==
    IF i > Len(s) THEN "" ELSE LowerCh(Ch(s, i)) \o LowerFrom(s, i + 1)

\* String.prototype.toLowerCase
toLowerCase(s) == LowerFrom(s, 1)

RECURSIVE SkipSpaces(_, _)
\* first position at or after i that holds no white space
SkipSpaces(s, i) ==
    IF i <= Len(s) /\ IsSpace(Ch(s, i)) THEN SkipSpaces(s, i + 1) ELSE i

RECURSIVE SkipSpacesBack(_, _)
\* last position at or before i that holds no white space
SkipSpacesBack(s, i) ==
    IF i >= 1 /\ IsSpace(Ch(s, i)) THEN SkipSpacesBack(s, i - 1) ELSE i

\* String.prototype.trim
trim(s) ==
    LET a == SkipSpaces(s, 1)
        b == SkipSpacesBack(s, Len(s))
    IN IF a > b THEN "" ELSE SubSeq(s, a, b)

RECURSIVE CollapseFrom(_, _)
CollapseFrom(s, i) ==
    IF i > Len(s) THEN ""
    ELSE IF IsSpace(Ch(s, i)) THEN " " \o CollapseFrom(s, SkipSpaces(s, i))
    ELSE Ch(s, i) \o CollapseFrom(s, i + 1)

\* s.replace(/\s+/g, ' ')
collapseWhitespace(s) == CollapseFrom(s, 1)

\* String.prototype.includes
includes(s, sub) ==
    \E i \in 1..(Len(s) + 1) :
        i + Len(sub) - 1 <= Len(s) /\ SubSeq(s, i, i + Len(sub) - 1) = sub

(***************************************************************************)
(* The two row tests of the walk.                                          *)
(***************************************************************************)
WeekdayPrefixes == {"mon", "tue", "wed", "thu", "fri", "sat", "sun"}

\* /^(Mon|Tue|Wed|Thu|Fri|Sat|Sun)/i.test(text)
isDateRow(text) ==
    Len(text) >= 3 /\ toLowerCase(SubSeq(text, 1, 3)) \in WeekdayPrefixes

\* \d{1,2}:\d{2} matched at position i: the position after it, or 0
ClockEnd(s, i) ==
    LET n == IF IsDigit(Ch(s, i)) /\ IsDigit(Ch(s, i + 1)) /\ Ch(s, i + 2) = ":"
             THEN 2
             ELSE IF IsDigit(Ch(s, i)) /\ Ch(s, i + 1) = ":" THEN 1 ELSE 0
    IN IF n > 0 /\ IsDigit(Ch(s, i + n + 1)) /\ IsDigit(Ch(s, i + n + 2))
       THEN i + n + 3
       ELSE 0

\* /\d{1,2}:\d{2}\s*-\s*\d{1,2}:\d{2}/ matched at position i:
\* the position after the match, or 0
TimeRangeEnd(s, i) ==
    LET a == ClockEnd(s, i)
        b == IF a = 0 THEN 0 ELSE SkipSpaces(s, a)
    IN IF a = 0 \/ Ch(s, b) # "-" THEN 0 ELSE ClockEnd(s, SkipSpaces(s, b + 1))

\* /\d{1,2}:\d{2}\s*-\s*\d{1,2}:\d{2}/.test(text)
isTimeRange(text) == \E i \in 1..Len(text) : TimeRangeEnd(text, i) # 0

RECURSIVE StripFrom(_, _)
StripFrom(s, i) ==
    IF i > Len(s) THEN ""
    ELSE IF TimeRangeEnd(s, i) # 0 THEN StripFrom(s, TimeRangeEnd(s, i))
    ELSE Ch(s, i) \o StripFrom(s, i + 1)

\* s.replace(/\d{1,2}:\d{2}\s*-\s*\d{1,2}:\d{2}/g, '')
stripTimeRanges(s) == StripFrom(s, 1)

(***************************************************************************)
(* The row walk (callback of page.evaluate).                               *)
(***************************************************************************)
Job(date, eventName, doctorName) ==
    [date |-> date, eventName |-> eventName, doctorName |-> doctorName]

\* cells of a row: the td texts, trimmed
Cells(row) == [i \in 1..Len(row) |-> trim(row[i])]

\* the context at the start of a walk
WalkStart ==
    [currentDate |-> UNKNOWN_DATE, currentEvent |-> UNKNOWN_EVENT, results |-> <<>>]

\* mutant: a weekday name makes a date-heading row, time range or not
RowKind_WeekdayIsDate(cells) ==
    IF Len(cells) = 0 THEN "empty"
    ELSE IF isDateRow(cells[1]) THEN "date"
    ELSE IF isTimeRange(cells[1]) THEN "time"
    ELSE IF cells[1] = TARGET_ROLE THEN "role"
    ELSE "other"

\* the branch of the loop body a row takes
RowKind(cells) ==
    IF Len(cells) = 0 THEN "empty"
    ELSE IF isDateRow(cells[1]) /\ ~isTimeRange(cells[1]) THEN "date"
    ELSE IF isTimeRange(cells[1]) THEN "time"
    ELSE IF cells[1] = TARGET_ROLE THEN "role"
    ELSE "other"

DateRowEffect(ctx, cells) ==
    [ctx EXCEPT !.currentDate = cells[1], !.currentEvent = UNKNOWN_EVENT]

\* cells[1].replace(timeRange, '').trim() || cells[1].trim()
EventFromCell(cell) ==
    IF trim(stripTimeRanges(cell)) # "" THEN trim(stripTimeRanges(cell))
    ELSE trim(cell)

TimeRowDocName(cells) == IF Len(cells) > 4 THEN cells[5] ELSE UNASSIGNED

\* mutant: cell index 2 is not compared with the target role
TimeRowEmits_AnyRole(cells, event) ==
    Len(cells) > 2 /\ event # UNKNOWN_EVENT

TimeRowEmits(cells, event) ==
    Len(cells) > 2 /\ cells[3] = TARGET_ROLE /\ event # UNKNOWN_EVENT

TimeRowEffect(ctx, cells) ==
    IF Len(cells) > 1
    THEN LET ev == EventFromCell(cells[2])
         IN [ctx EXCEPT
               !.currentEvent = ev,
               !.results = IF TimeRowEmits(cells, ev)
                           THEN Append(@, Job(ctx.currentDate, ev, TimeRowDocName(cells)))
                           ELSE @]
    ELSE ctx

\* mutant: the holder is read from cell index 1
RoleRowDocName_Col1(cells) == IF Len(cells) > 1 THEN cells[2] ELSE UNASSIGNED

RoleRowDocName(cells) == IF Len(cells) > 2 THEN cells[3] ELSE UNASSIGNED

\* mutant: the date is not tested
RoleRowEmits_EventOnly(date, event) == event # UNKNOWN_EVENT

\* mutant: the event is not tested
RoleRowEmits_DateOnly(date, event) == date # UNKNOWN_DATE

RoleRowEmits(date, event) == date # UNKNOWN_DATE /\ event # UNKNOWN_EVENT

\* mutant: the role-match row ends the event once it has pushed
RoleRowEffect_ResetsEvent(ctx, cells) ==
    IF RoleRowEmits(ctx.currentDate, ctx.currentEvent)
    THEN [ctx EXCEPT
            !.currentEvent = UNKNOWN_EVENT,
            !.results =
               Append(@, Job(ctx.currentDate, ctx.currentEvent, RoleRowDocName(cells)))]
    ELSE ctx

RoleRowEffect(ctx, cells) ==
    IF RoleRowEmits(ctx.currentDate, ctx.currentEvent)
    THEN [ctx EXCEPT !.results =
            Append(@, Job(ctx.currentDate, ctx.currentEvent, RoleRowDocName(cells)))]
    ELSE ctx

\* one iteration of the loop over the rows
RowStep(ctx, row) ==
    LET cells == Cells(row)
        kind == RowKind(cells)
    IN IF kind = "date" THEN DateRowEffect(ctx, cells)
       ELSE IF kind = "time" THEN TimeRowEffect(ctx, cells)
       ELSE IF kind = "role" THEN RoleRowEffect(ctx, cells)
       ELSE ctx

RECURSIVE WalkFrom(_, _, _)
WalkFrom(ctx, table, i) ==
    IF i > Len(table) THEN ctx ELSE WalkFrom(RowStep(ctx, table[i]), table, i + 1)

\* the value of page.evaluate(...): the records of the whole table
WalkAll(table) == WalkFrom(WalkStart, table, 1).results

(***************************************************************************)
(* Identity, store and report helpers of mainScraper.                      *)
(***************************************************************************)
\* createHash('md5').update(raw).digest('hex'): the digest is taken to be
\* free of collisions, so it is one-to-one on the text it is given
md5hex(raw) == "md5:" \o raw

\* `${date}|${event}|${doctor}`.toLowerCase().replace(/\s+/g, ' ').trim()
JobIdRaw(date, event, doctor) ==
    trim(collapseWhitespace(toLowerCase(date \o "|" \o event \o "|" \o doctor)))

createJobId(date, event, doctor) == md5hex(JobIdRaw(date, event, doctor))

JobIdOf(job) == createJobId(job.date, job.eventName, job.doctorName)

\* mutant: no candidate is skipped
SkipJob_Never(job) == FALSE

\* if (job.date === 'Unknown Date') continue
SkipJob(job) == job.date = UNKNOWN_DATE

\* mutant: the negation is missing
isJobNew_Inverted(st, id) == id \in DOMAIN st

\* mutant: an id counts as seen from the moment a write of it is attempted
isJobNew_AttemptedSeen(st, id) ==
    id \notin DOMAIN st /\ \A k \in DOMAIN writes : writes[k].id # id

\* !(await getDoc(docRef)).exists(), on the documents st
isJobNew(st, id) == id \notin DOMAIN st

\* job.doctorName.toLowerCase().includes('unassigned')
IsVacancy(job) == includes(toLowerCase(job.doctorName), "unassigned")

\* the document setDoc stores under id
HistoryDoc(id, job, stamp) ==
    [job |-> job, jobId |-> id, savedAt |-> stamp, isVacancy |-> IsVacancy(job)]

\* mutant: the document is not stored
saveJobToHistory_Lost(st, id, document) == st

\* mutant: a document that exists is not written again
saveJobToHistory_IfAbsent(st, id, document) ==
    [k \in DOMAIN st \cup {id} |-> IF k \in DOMAIN st THEN st[k] ELSE document]

\* the documents after setDoc(docRef, document) has resolved
saveJobToHistory(st, id, document) ==
    [k \in DOMAIN st \cup {id} |-> IF k = id THEN document ELSE st[k]]

\* const isVacant = ...includes('unassigned') || j.doctorName === ''
isVacant(j) == IsVacancy(j) \/ j.doctorName = ""

\* const status = isVacant ? '**AVAILABLE / UNASSIGNED**' : `Taken by ${j.doctorName}`
jobStatus(j) ==
    IF isVacant(j) THEN "**AVAILABLE / UNASSIGNED**" ELSE "Taken by " \o j.doctorName

\* mutant: the comparison is the other way round
SortVacantFirst_AssignedFirst(list) ==
    SelectSeq(list, LAMBDA j : ~IsVacancy(j)) \o SelectSeq(list, IsVacancy)

\* newJobs.sort((a, b) => bVacant - aVacant), a stable sort
SortVacantFirst(list) ==
    SelectSeq(list, IsVacancy) \o SelectSeq(list, LAMBDA j : ~IsVacancy(j))

(***************************************************************************)
(* Helpers of retry.                                                       *)
(***************************************************************************)
\* mutant: the comparison is off by one
RetryExhausted_OffByOne(i, limit) == i > limit

\* if (i >= attempts) throw err
RetryExhausted(i, limit) == i >= limit

\* mutant: the delay grows by baseDelay with every attempt
BackoffDelay_Linear(base, i) == base * i

\* baseDelay * Math.pow(2, i - 1)
BackoffDelay(base, i) == base * (2 ^ (i - 1))

(***************************************************************************)
(* extractDateOnly (src/index.js): the regular expressions, as operators   *)
(* over the characters of the text.  A match operator gives the position   *)
(* after the match that starts at position i, or 0 when there is none.     *)
(***************************************************************************)
IsLetter(c) ==
    \E i \in 1..26 : c = Ch(UpperChars, i) \/ c = Ch(LowerChars, i)

\* \w
IsWordCh(c) == IsLetter(c) \/ IsDigit(c) \/ c = "_"

\* \b between the characters i - 1 and i
WordBoundary(s, i) == IsWordCh(Ch(s, i - 1)) # IsWordCh(Ch(s, i))

\* the text w stands at position i, in any case
WordAt(s, i, w) ==
    i + Len(w) - 1 <= Len(s) /\ toLowerCase(SubSeq(s, i, i + Len(w) - 1)) = w

\* /\bw\b/.test(s), for a word w of letters
HasWord(s, w) ==
    \E i \in 1..Len(s) :
        WordAt(s, i, w) /\ WordBoundary(s, i) /\ WordBoundary(s, i + Len(w))

RECURSIVE RemoveMatches(_, _, _)
\* s.replace(re, '') for a global re; ends[i] is the match operator of re at i
RemoveMatches(s, ends, i) ==
    IF i > Len(s) THEN ""
    ELSE IF ends[i] # 0 THEN RemoveMatches(s, ends, ends[i])
    ELSE Ch(s, i) \o RemoveMatches(s, ends, i + 1)

\* number of letters from position i on, counted up to n
RECURSIVE LetterRun(_, _, _)
LetterRun(s, i, n) ==
    IF n > 0 /\ IsLetter(Ch(s, i)) THEN 1 + LetterRun(s, i + 1, n - 1) ELSE 0

\* s.replace(/\bat\s+/i, ' '): the first "at" that starts a word and is
\* followed by white space goes, with that white space
stripAt(s) ==
    LET hits == {i \in 1..Len(s) :
                    WordBoundary(s, i) /\ WordAt(s, i, "at") /\ IsSpace(Ch(s, i + 2))}
    IN IF hits = {} THEN s
       ELSE LET i == CHOOSE h \in hits : \A g \in hits : h <= g
            IN SubSeq(s, 1, i - 1) \o " "
                 \o SubSeq(s, SkipSpaces(s, i + 2), Len(s))

\* [A-Z]{2,5}\b under the i flag: a run of two to five letters, of any case,
\* that ends a word
ZoneLettersEnd(s, i) ==
    LET m == LetterRun(s, i, 6)
    IN IF m >= 2 /\ m <= 5 /\ ~IsWordCh(Ch(s, i + m)) THEN i + m ELSE 0

\* \d{1,2}\b at position i
OffsetDigitsEnd(s, i) ==
    IF IsDigit(Ch(s, i)) /\ IsDigit(Ch(s, i + 1)) /\ ~IsWordCh(Ch(s, i + 2))
    THEN i + 2
    ELSE IF IsDigit(Ch(s, i)) /\ ~IsWordCh(Ch(s, i + 1)) THEN i + 1
    ELSE 0

\* GMT[+\-]?\d{1,2}\b and UTC[+\-]?\d{1,2}\b, for zone = "gmt" or "utc"
ZoneOffsetEnd(s, i, zone) ==
    IF ~WordAt(s, i, zone) THEN 0
    ELSE IF Ch(s, i + 3) \in {"+", "-"} THEN OffsetDigitsEnd(s, i + 4)
    ELSE OffsetDigitsEnd(s, i + 3)

\* [A-Z]{n} ?GMT\b at position i
ZonePrefixedGmtEnd(s, i, n) ==
    IF LetterRun(s, i, n) < n THEN 0
    ELSE IF Ch(s, i + n) = " " /\ WordAt(s, i + n + 1, "gmt")
                               /\ ~IsWordCh(Ch(s, i + n + 4))
    THEN i + n + 4
    ELSE IF WordAt(s, i + n, "gmt") /\ ~IsWordCh(Ch(s, i + n + 3))
    THEN i + n + 3
    ELSE 0

\* /\b(?:[A-Z]{2,5}|GMT[+\-]?\d{1,2}|UTC[+\-]?\d{1,2}|[A-Z]{1,4} ?GMT)\b/gi
\* at position i: the alternatives in their order, the longest prefix first
TimezoneEnd(s, i) ==
    IF ~WordBoundary(s, i) THEN 0
    ELSE IF ZoneLettersEnd(s, i) # 0 THEN ZoneLettersEnd(s, i)
    ELSE IF ZoneOffsetEnd(s, i, "gmt") # 0 THEN ZoneOffsetEnd(s, i, "gmt")
    ELSE IF ZoneOffsetEnd(s, i, "utc") # 0 THEN ZoneOffsetEnd(s, i, "utc")
    ELSE IF ZonePrefixedGmtEnd(s, i, 4) # 0 THEN ZonePrefixedGmtEnd(s, i, 4)
    ELSE IF ZonePrefixedGmtEnd(s, i, 3) # 0 THEN ZonePrefixedGmtEnd(s, i, 3)
    ELSE IF ZonePrefixedGmtEnd(s, i, 2) # 0 THEN ZonePrefixedGmtEnd(s, i, 2)
    ELSE ZonePrefixedGmtEnd(s, i, 1)

\* (?:am|pm|AM|PM) at position i
AmPmEnd(s, i) ==
    IF i + 1 <= Len(s) /\ SubSeq(s, i, i + 1) \in {"am", "pm", "AM", "PM"}
    THEN i + 2
    ELSE 0

\* \s?(?:am|pm|AM|PM)?\b at position q: each optional part is taken when the
\* rest can still match
ClockTailEnd(s, q) ==
    LET sp == IF IsSpace(Ch(s, q)) THEN q + 1 ELSE 0
    IN IF sp # 0 /\ AmPmEnd(s, sp) # 0 /\ WordBoundary(s, sp + 2) THEN sp + 2
       ELSE IF sp # 0 /\ WordBoundary(s, sp) THEN sp
       ELSE IF AmPmEnd(s, q) # 0 /\ WordBoundary(s, q + 2) THEN q + 2
       ELSE IF WordBoundary(s, q) THEN q
       ELSE 0

\* /\b\d{1,2}:\d{2}(?::\d{2})?\s?(?:am|pm|AM|PM)?\b/g at position i
ClockTimeEnd(s, i) ==
    LET p == IF WordBoundary(s, i) THEN ClockEnd(s, i) ELSE 0
        withSeconds ==
            IF p # 0 /\ Ch(s, p) = ":" /\ IsDigit(Ch(s, p + 1)) /\ IsDigit(Ch(s, p + 2))
            THEN ClockTailEnd(s, p + 3)
            ELSE 0
    IN IF p = 0 THEN 0
       ELSE IF withSeconds # 0 THEN withSeconds
       ELSE ClockTailEnd(s, p)

\* /\b\d{1,2}\s?(?:am|pm)\b/gi at position i
HourAmPmEnd(s, i) ==
    LET d == IF IsDigit(Ch(s, i)) /\ IsDigit(Ch(s, i + 1)) THEN i + 2
             ELSE IF IsDigit(Ch(s, i)) THEN i + 1
             ELSE 0
        q == IF d # 0 /\ IsSpace(Ch(s, d)) THEN d + 1 ELSE d
    IN IF WordBoundary(s, i) /\ d # 0
          /\ (WordAt(s, q, "am") \/ WordAt(s, q, "pm"))
          /\ WordBoundary(s, q + 2)
       THEN q + 2
       ELSE 0

\* /\b\d{3,4}hrs?\b/gi at position i
HoursEnd(s, i) ==
    LET d == IF \A k \in 0..3 : IsDigit(Ch(s, i + k)) THEN i + 4
             ELSE IF \A k \in 0..2 : IsDigit(Ch(s, i + k)) THEN i + 3
             ELSE 0
    IN IF ~WordBoundary(s, i) \/ d = 0 \/ ~WordAt(s, d, "hr") THEN 0
       ELSE IF WordAt(s, d + 2, "s") /\ WordBoundary(s, d + 3) THEN d + 3
       ELSE IF WordBoundary(s, d + 2) THEN d + 2
       ELSE 0

\* /\b\d{2}:\d{2}:\d{2}\b/g at position i
FullClockEnd(s, i) ==
    IF /\ WordBoundary(s, i)
       /\ \A k \in {0, 1, 3, 4, 6, 7} : IsDigit(Ch(s, i + k))
       /\ Ch(s, i + 2) = ":" /\ Ch(s, i + 5) = ":"
       /\ WordBoundary(s, i + 8)
    THEN i + 8
    ELSE 0


\* /\b(posted|posted on|posted:)\b/gi at position i: the alternatives in
\* their order
ConnectorEnd(s, i) ==
    IF ~WordBoundary(s, i) \/ ~WordAt(s, i, "posted") THEN 0
    ELSE IF WordBoundary(s, i + 6) THEN i + 6
    ELSE IF WordAt(s, i, "posted on") /\ WordBoundary(s, i + 9) THEN i + 9
    ELSE IF WordAt(s, i, "posted:") /\ WordBoundary(s, i + 7) THEN i + 7
    ELSE 0

\* the global expressions whose matches extractDateOnly removes, at position i
MatchEnd(re, s, i) ==
    CASE re = "timezone" -> TimezoneEnd(s, i)
      [] re = "clock time" -> ClockTimeEnd(s, i)
      [] re = "hour am pm" -> HourAmPmEnd(s, i)
      [] re = "hours" -> HoursEnd(s, i)
      [] re = "full clock" -> FullClockEnd(s, i)
      [] re = "connector" -> ConnectorEnd(s, i)

\* s.replace(re, '')
replaceAll(s, re) ==
    RemoveMatches(s, [i \in 1..Len(s) |-> MatchEnd(re, s, i)], 1)

\* the three statements that remove time components
stripTimes(s) ==
    replaceAll(replaceAll(replaceAll(replaceAll(s, "clock time"),
                                     "hour am pm"), "hours"), "full clock")

RECURSIVE replaceBullets(_, _)
\* s.replace(/[|...]/g, ' ') from position i on; of the characters of the
\* class, the texts of the model hold the bar only
replaceBullets(s, i) ==
    IF i > Len(s) THEN ""
    ELSE (IF Ch(s, i) = "|" THEN " " ELSE Ch(s, i)) \o replaceBullets(s, i + 1)

\* monthPattern.test(s)
monthPattern(s) ==
    \E w \in {"jan", "january", "feb", "february", "mar", "march", "apr",
               "april", "may", "jun", "june", "jul", "july", "aug", "august",
               "sep", "sept", "september", "oct", "october", "nov",
               "november", "dec", "december"} : HasWord(s, w)

\* s.replace(/,\s*$/, '').trim()
stripTrailingComma(s) ==
    LET hits == {i \in 1..Len(s) :
                    Ch(s, i) = "," /\ SkipSpaces(s, i + 1) > Len(s)}
    IN IF hits = {} THEN trim(s)
       ELSE trim(SubSeq(s, 1, (CHOOSE h \in hits : \A g \in hits : h <= g) - 1))

\* /:\d{2}/.test(s)
hasClockDigits(s) ==
    \E i \in 1..Len(s) :
        Ch(s, i) = ":" /\ IsDigit(Ch(s, i + 1)) /\ IsDigit(Ch(s, i + 2))

\* the text s of extractDateOnly after its removals, before the date is
\* read
cleanDateText(s) ==
    trim(collapseWhitespace(replaceBullets(
        replaceAll(stripTimes(replaceAll(stripAt(s), "timezone")),
                   "connector"), 1)))

(***************************************************************************)
(* Numbers and calendar dates.  A Date is modelled by the calendar date    *)
(* its local getters give: [year, month, day], month counted from 1.       *)
(***************************************************************************)
DigitChars == "0123456789"

RECURSIVE DigitsEnd(_, _)
\* the position after the digits that start at position i
DigitsEnd(s, i) == IF IsDigit(Ch(s, i)) THEN DigitsEnd(s, i + 1) ELSE i

RECURSIVE NumberOf(_, _, _)
\* parseInt of the digits s[i..j]
NumberOf(s, i, j) ==
    IF j < i THEN 0 ELSE 10 * NumberOf(s, i, j - 1)
                         + (CHOOSE n \in 0..9 : Ch(DigitChars, n + 1) = Ch(s, j))

RECURSIVE NatToText(_)
\* `${n}` for a natural number n
NatToText(n) ==
    IF n < 10 THEN Ch(DigitChars, n + 1)
    ELSE NatToText(n \div 10) \o Ch(DigitChars, (n % 10) + 1)

\* (`0${n}`).slice(-2)
Pad2(n) ==
    LET t == "0" \o NatToText(n) IN SubSeq(t, Len(t) - 1, Len(t))

Date(y, m, d) == [year |-> y, month |-> m, day |-> d]

\* the Date of NaN, and the null that stands for "no Date"
InvalidDate == Date(0, 0, 0)

DaysInMonth(y, m) ==
    IF m = 2
    THEN (IF (y % 4 = 0 /\ y % 100 # 0) \/ y % 400 = 0 THEN 29 ELSE 28)
    ELSE IF m \in {4, 6, 9, 11} THEN 30
    ELSE 31

\* new Date(y, m - 1, d) for d in 1..31: a day past the end of the month
\* runs into the next month; a year below 100 counts from 1900
MakeDate(y, m, d) ==
    LET year == IF y \in 0..99 THEN 1900 + y ELSE y
    IN IF d <= DaysInMonth(year, m) THEN Date(year, m, d)
       ELSE Date(year, m + 1, d - DaysInMonth(year, m))

\* d.setDate(d.getDate() - 1)
PreviousDay(date) ==
    IF date.day > 1 THEN Date(date.year, date.month, date.day - 1)
    ELSE IF date.month > 1
    THEN Date(date.year, date.month - 1, DaysInMonth(date.year, date.month - 1))
    ELSE Date(date.year - 1, 12, 31)

\* the day after date
NextDay(date) ==
    IF date.day < DaysInMonth(date.year, date.month)
    THEN Date(date.year, date.month, date.day + 1)
    ELSE IF date.month < 12 THEN Date(date.year, date.month + 1, 1)
    ELSE Date(date.year + 1, 1, 1)

\* formatDateISO(date)
formatDateISO(date) ==
    NatToText(date.year) \o "-" \o Pad2(date.month) \o "-" \o Pad2(date.day)

(***************************************************************************)
(* Date.parse, as the parser of V8 (the engine of Node) reads a text that  *)
(* is not in the ISO format and is made of words, numbers, blanks, commas  *)
(* and slashes: a word that starts like a month name names the month, a    *)
(* word that does not is skipped before the first number and is an error   *)
(* after it, up to three numbers are the day parts, a missing part is 1,   *)
(* and a year below 50 counts from 2000, below 100 from 1900.              *)
(***************************************************************************)
MonthPrefixes ==
    <<"jan", "feb", "mar", "apr", "may", "jun", "jul", "aug", "sep", "oct",
      "nov", "dec">>

\* the month a word names by its first three letters, or 0
MonthOfWord(w) ==
    IF \E m \in 1..12 : WordAt(w, 1, MonthPrefixes[m])
    THEN CHOOSE m \in 1..12 : WordAt(w, 1, MonthPrefixes[m])
    ELSE 0

IsDay(n) == n >= 1 /\ n <= 31
IsMonth(n) == n >= 1 /\ n <= 12

RECURSIVE ScanDate(_, _, _, _)
\* the tokens from position i on; nums are the numbers read so far and
\* named the month named so far (0: none)
ScanDate(text, i, nums, named) ==
    IF i > Len(text) THEN [ok |-> TRUE, nums |-> nums, named |-> named]
    ELSE IF IsDigit(Ch(text, i))
    THEN IF Len(nums) = 3 THEN [ok |-> FALSE, nums |-> nums, named |-> named]
         ELSE ScanDate(text, DigitsEnd(text, i),
                       Append(nums, NumberOf(text, i, DigitsEnd(text, i) - 1)),
                       named)
    ELSE IF IsLetter(Ch(text, i))
    THEN LET e == i + LetterRun(text, i, Len(text))
             m == MonthOfWord(SubSeq(text, i, e - 1))
         IN IF m # 0 THEN ScanDate(text, e, nums, m)
            ELSE IF nums # <<>> \/ IsDigit(Ch(text, e))
            THEN [ok |-> FALSE, nums |-> nums, named |-> named]
            ELSE ScanDate(text, e, nums, named)
    ELSE ScanDate(text, i + 1, nums, named)

\* the day of the parts read: year-month-day when the first number is no
\* day of a month, month-day-year otherwise; around a named month,
\* year-day or day-year
ComposeDay(nums, named) ==
    LET c == [k \in 1..3 |-> IF k <= Len(nums) THEN nums[k] ELSE 1]
        ymd == IF named = 0
               THEN (IF ~IsDay(c[1]) THEN <<c[1], c[2], c[3]>>
                     ELSE <<c[3], c[1], c[2]>>)
               ELSE (IF ~IsDay(c[1]) THEN <<c[1], named, c[2]>>
                     ELSE <<c[2], named, c[1]>>)
        year == IF ymd[1] \in 0..49 THEN ymd[1] + 2000
                ELSE IF ymd[1] \in 50..99 THEN ymd[1] + 1900
                ELSE ymd[1]
    IN IF nums # <<>> /\ IsMonth(ymd[2]) /\ IsDay(ymd[3])
       THEN MakeDate(year, ymd[2], ymd[3])
       ELSE InvalidDate

\* new Date(Date.parse(text)), InvalidDate for NaN
DateParse(text) ==
    LET scan == ScanDate(text, 1, <<>>, 0)
    IN IF scan.ok THEN ComposeDay(scan.nums, scan.named) ELSE InvalidDate

(***************************************************************************)
(* Inputs: rows of td texts, and the tables made of them.                  *)
(***************************************************************************)
RowPool ==
    { <<>>,
      <<"Mon 1 Jan">>,
      <<" tue 2 Jan ">>,
      <<"09:00 - 10:00", "Ward Round", "Doctor", "", "Dr. A">>,
      <<"9:00-10:00", "Ward Round 9:00-10:00", "Doctor", "", "DR. A">>,
      <<"Mon 09:00 - 10:00", "Clinic", "Doctor">>,
      <<"11:00 - 12:00", "11:00 - 12:00 ">>,
      <<"13:00 - 14:00">>,
      <<"10:00 - 11:00", "Unknown Event", "Doctor", "", "Dr. A">>,
      <<"14:00 - 15:00", "9:00-10:00 10:00-11:00", "Nurse">>,
      <<"Doctor", "Dr. B">>,
      <<"Doctor", "", "Dr. B">>,
      <<"Nurse", "", "N. C">> }

SnapshotRows ==
    { <<"Mon 1 Jan">>,
      <<"09:00 - 10:00", "Ward Round", "Doctor", "", "Dr. A">>,
      <<"9:00-10:00", "Ward Round 9:00-10:00", "Doctor", "", "DR. A">>,
      <<"Doctor", "", "Dr. B">>,
      <<"Doctor", "", "">>,
      <<"Doctor">> }

Tables(pool, n) == UNION {[1..k -> pool] : k \in 0..n}

(***************************************************************************)
(* The walk, one row per step.                                             *)
(***************************************************************************)
WalkCtx ==
    [currentDate |-> currentDate, currentEvent |-> currentEvent, results |-> results]

WalkIdle ==
    /\ rowIdx = 1
    /\ currentDate = UNKNOWN_DATE
    /\ currentEvent = UNKNOWN_EVENT
    /\ results = <<>>
    /\ emitted = <<>>

Runs == 1..MaxRuns

NoOutcome == [status |-> "none"]

RetryIdle ==
    /\ attempts = RETRY_ATTEMPTS
    /\ baseDelay = RETRY_BASE_DELAY
    /\ hasOnRetry = FALSE
    /\ retryI = 0
    /\ retryPc = "call"
    /\ fnCalls = <<>>
    /\ observed = <<>>
    /\ sleeps = <<>>
    /\ retryResult = NoOutcome

MainIdle ==
    /\ pc = [r \in Runs |-> "idle"]
    /\ jobs = [r \in Runs |-> <<>>]
    /\ idx = [r \in Runs |-> 1]
    /\ newJobs = [r \in Runs |-> <<>>]
    /\ outcome = [r \in Runs |-> NoOutcome]
    /\ exitCode = [r \in Runs |-> -1]
    /\ store = <<>>
    /\ checks = <<>>
    /\ writes = <<>>
    /\ dispatched = <<>>
    /\ delivery = [r \in Runs |-> "none"]
    /\ failures = 0

\* no call of createJobId, extractDateOnly or runScraper is under way
CallIdle ==
    /\ triples = <<>>
    /\ jobIds = <<>>
    /\ rawText = ""
    /\ now = <<>>
    /\ wallClock = <<>>
    /\ extracted = <<>>
    /\ scraper = [pc |-> "idle"]

WalkInit ==
    /\ rows \in Tables(RowPool, MaxRows)
    /\ WalkIdle
    /\ RetryIdle
    /\ MainIdle
    /\ CallIdle

\* the row the loop is at, as cells
CurrentCells == Cells(rows[rowIdx])

\* the loop variables after one iteration; kind is the branch taken
WalkTo(next, kind) ==
    /\ currentDate' = next.currentDate
    /\ currentEvent' = next.currentEvent
    /\ results' = next.results
    /\ emitted' = IF Len(next.results) > Len(results)
                    THEN Append(emitted, [kind |-> kind, row |-> rowIdx])
                    ELSE emitted
    /\ rowIdx' = rowIdx + 1
    /\ UNCHANGED <<rows, retryVars, mainVars, callVars>>

\* if (cells.length === 0) continue
WalkEmptyRow ==
    /\ rowIdx <= Len(rows)
    /\ RowKind(CurrentCells) = "empty"
    /\ WalkTo(WalkCtx, "empty")

\* if (isDateRow(col0) && !isTimeRange(col0)) { ... continue }
WalkDateRow ==
    /\ rowIdx <= Len(rows)
    /\ RowKind(CurrentCells) = "date"
    /\ WalkTo(DateRowEffect(WalkCtx, CurrentCells), "date")

\* if (isTimeRange(col0)) { ... continue }
WalkTimeRow ==
    /\ rowIdx <= Len(rows)
    /\ RowKind(CurrentCells) = "time"
    /\ WalkTo(TimeRowEffect(WalkCtx, CurrentCells), "time")

\* if (col0 === targetRole) { ... }
WalkRoleRow ==
    /\ rowIdx <= Len(rows)
    /\ RowKind(CurrentCells) = "role"
    /\ WalkTo(RoleRowEffect(WalkCtx, CurrentCells), "role")

\* a row that none of the tests accepts
WalkOtherRow ==
    /\ rowIdx <= Len(rows)
    /\ RowKind(CurrentCells) = "other"
    /\ WalkTo(WalkCtx, "other")

WalkNext ==
    \/ WalkEmptyRow
    \/ WalkDateRow
    \/ WalkTimeRow
    \/ WalkRoleRow
    \/ WalkOtherRow

SpecWalk == WalkInit /\ [][WalkNext]_vars

WalkDone == rowIdx > Len(rows)

(***************************************************************************)
(* retry(fn, { attempts, baseDelay, onRetry }), one await per step.        *)
(***************************************************************************)
BaseDelays == {RETRY_BASE_DELAY, 1000}

RetryInit ==
    /\ attempts \in 0..MaxAttempts
    /\ baseDelay \in BaseDelays
    /\ hasOnRetry \in BOOLEAN
    /\ retryI = 0
    /\ retryPc = "call"
    /\ fnCalls = <<>>
    /\ observed = <<>>
    /\ sleeps = <<>>
    /\ retryResult = NoOutcome
    /\ rows = <<>>
    /\ WalkIdle
    /\ MainIdle
    /\ CallIdle

\* return await fn(), fn resolves
RetryCallOk ==
    /\ retryPc = "call"
    /\ retryI < attempts
    /\ fnCalls' = Append(fnCalls, [ok |-> TRUE, err |-> 0])
    /\ retryPc' = "returned"
    /\ retryResult' = [status |-> "value"]
    /\ UNCHANGED <<attempts, baseDelay, hasOnRetry, retryI, observed, sleeps>>
    /\ UNCHANGED <<rows, walkVars, mainVars, callVars>>

\* fn rejects with a new error (named by the number of the call): the catch
\* block up to the throw, or up to the call of sleep
RetryCallFail ==
    /\ retryPc = "call"
    /\ retryI < attempts
    /\ LET err == Len(fnCalls) + 1
           i == retryI + 1
       IN /\ fnCalls' = Append(fnCalls, [ok |-> FALSE, err |-> err])
          /\ retryI' = i
          /\ IF RetryExhausted(i, attempts)
             THEN /\ retryPc' = "raised"
                  /\ retryResult' = [status |-> "error", err |-> err]
                  /\ UNCHANGED observed
             ELSE /\ retryPc' = "sleep"
                  /\ observed' =
                       IF hasOnRetry
                       THEN Append(observed,
                                   [attempt |-> i, err |-> err,
                                    delay |-> BackoffDelay(baseDelay, i)])
                       ELSE observed
                  /\ UNCHANGED retryResult
    /\ UNCHANGED <<attempts, baseDelay, hasOnRetry, sleeps>>
    /\ UNCHANGED <<rows, walkVars, mainVars, callVars>>

\* await sleep(delay) resolves; back to the loop test
RetrySleep ==
    /\ retryPc = "sleep"
    /\ sleeps' = Append(sleeps, BackoffDelay(baseDelay, retryI))
    /\ retryPc' = "call"
    /\ UNCHANGED <<attempts, baseDelay, hasOnRetry, retryI, fnCalls, observed,
                   retryResult>>
    /\ UNCHANGED <<rows, walkVars, mainVars, callVars>>

\* while (i < attempts) is false: the function ends without a return
RetryFallThrough ==
    /\ retryPc = "call"
    /\ ~(retryI < attempts)
    /\ retryPc' = "returned"
    /\ retryResult' = [status |-> "undefined"]
    /\ UNCHANGED <<attempts, baseDelay, hasOnRetry, retryI, fnCalls, observed,
                   sleeps>>
    /\ UNCHANGED <<rows, walkVars, mainVars, callVars>>

RetryNext ==
    \/ RetryCallOk
    \/ RetryCallFail
    \/ RetrySleep
    \/ RetryFallThrough

SpecRetry == RetryInit /\ [][RetryNext]_vars

RetryDone == retryPc \in {"returned", "raised"}

(***************************************************************************)
(* mainScraper, one await per step; run r is one start of the process.     *)
(***************************************************************************)
\* what can happen to a message: no token or chat id, fetch resolved with an
\* OK response, fetch resolved with a response that is not OK, fetch threw
Deliveries == {"unconfigured", "sent", "rejected", "failed"}

\* mutant: the fetch is not inside a try block
sendTelegram_NoCatch(d) == IF d = "failed" THEN "raised" ELSE "returned"

\* how a call of sendTelegram ends for its caller
sendTelegram(d) ==
    IF d = "unconfigured" THEN "returned"   \* if (!TOKEN || !CHAT_ID) return
    ELSE IF d = "failed" THEN "returned"    \* catch (e) { logger.error(...) }
    ELSE "returned"                         \* the response is not read

\* how a call of sendTelegramMessage (index.js) ends for its caller
sendTelegramMessage(d) ==
    IF d = "unconfigured" THEN "returned"   \* warn(...); return
    ELSE IF d = "failed" THEN "returned"    \* catch (err) { warn(...) }
    ELSE IF d = "rejected" THEN "returned"  \* if (!res.ok) warn(...)
    ELSE "returned"                         \* info('Telegram notification sent.')

\* errors thrown before the table is read
AbortMessages == {"Missing credentials", "Firebase init failed"}

Init ==
    /\ rows \in Tables(SnapshotRows, MaxSnapshotRows)
    /\ WalkIdle
    /\ RetryIdle
    /\ MainIdle
    /\ CallIdle

\* runs do not overlap: a run starts after every earlier one has exited
CanStart(r) == pc[r] = "idle" /\ \A q \in Runs : q < r => pc[q] = "exited"

CanFail == failures < MaxFailures

CurrentJob(r) == jobs[r][idx[r]]

\* an error is thrown before page.evaluate: control goes to the catch block
RunAbort(r) ==
    /\ CanStart(r)
    /\ CanFail
    /\ \E m \in AbortMessages :
         outcome' = [outcome EXCEPT ![r] = [status |-> "thrown", message |-> m]]
    /\ pc' = [pc EXCEPT ![r] = "catch"]
    /\ failures' = failures + 1
    /\ UNCHANGED <<jobs, idx, newJobs, exitCode, store, checks, writes, dispatched, delivery>>
    /\ UNCHANGED <<rows, walkVars, retryVars, callVars>>

\* page.waitForSelector(JOB_TABLE) rejects: return { status: "success", new: 0 }
RunNoTable(r) ==
    /\ CanStart(r)
    /\ CanFail
    /\ outcome' = [outcome EXCEPT ![r] = [status |-> "success", new |-> 0]]
    /\ pc' = [pc EXCEPT ![r] = "done"]
    /\ failures' = failures + 1
    /\ UNCHANGED <<jobs, idx, newJobs, exitCode, store, checks, writes, dispatched, delivery>>
    /\ UNCHANGED <<rows, walkVars, retryVars, callVars>>

\* const jobs = await page.evaluate(...)
RunScrape(r) ==
    /\ CanStart(r)
    /\ jobs' = [jobs EXCEPT ![r] = WalkAll(rows)]
    /\ idx' = [idx EXCEPT ![r] = 1]
    /\ pc' = [pc EXCEPT ![r] = "loop"]
    /\ UNCHANGED <<newJobs, outcome, exitCode, store, checks, writes, dispatched, delivery,
                   failures>>
    /\ UNCHANGED <<rows, walkVars, retryVars, callVars>>

\* if (job.date === 'Unknown Date') continue
LoopSkip(r) ==
    /\ pc[r] = "loop"
    /\ idx[r] <= Len(jobs[r])
    /\ SkipJob(CurrentJob(r))
    /\ idx' = [idx EXCEPT ![r] = @ + 1]
    /\ UNCHANGED <<pc, jobs, newJobs, outcome, exitCode, store, checks, writes,
                   dispatched, delivery, failures>>
    /\ UNCHANGED <<rows, walkVars, retryVars, callVars>>

\* if (await isJobNew(id)) { newJobs.push(job); ... : getDoc resolves
LoopCheck(r) ==
    /\ pc[r] = "loop"
    /\ idx[r] <= Len(jobs[r])
    /\ ~SkipJob(CurrentJob(r))
    /\ LET job == CurrentJob(r)
           id == JobIdOf(job)
       IN /\ checks' = Append(checks, [run |-> r, id |-> id, job |-> job, ok |-> TRUE])
          /\ IF isJobNew(store, id)
             THEN /\ newJobs' = [newJobs EXCEPT ![r] = Append(@, job)]
                  /\ pc' = [pc EXCEPT ![r] = "save"]
                  /\ UNCHANGED idx
             ELSE /\ idx' = [idx EXCEPT ![r] = @ + 1]
                  /\ UNCHANGED <<pc, newJobs>>
    /\ UNCHANGED <<jobs, outcome, exitCode, store, writes, dispatched, delivery, failures>>
    /\ UNCHANGED <<rows, walkVars, retryVars, callVars>>

\* await isJobNew(id): getDoc rejects, the error reaches the catch block
LoopCheckFail(r) ==
    /\ pc[r] = "loop"
    /\ idx[r] <= Len(jobs[r])
    /\ ~SkipJob(CurrentJob(r))
    /\ CanFail
    /\ checks' = Append(checks, [run |-> r, id |-> JobIdOf(CurrentJob(r)),
                                 job |-> CurrentJob(r), ok |-> FALSE])
    /\ outcome' = [outcome EXCEPT ![r] = [status |-> "thrown", message |-> "getDoc failed"]]
    /\ pc' = [pc EXCEPT ![r] = "catch"]
    /\ failures' = failures + 1
    /\ UNCHANGED <<jobs, idx, newJobs, exitCode, store, writes, dispatched, delivery>>
    /\ UNCHANGED <<rows, walkVars, retryVars, callVars>>

\* await saveJobToHistory(id, job): setDoc resolves
LoopSave(r) ==
    /\ pc[r] = "save"
    /\ LET job == CurrentJob(r)
           id == JobIdOf(job)
       IN /\ store' = saveJobToHistory(store, id, HistoryDoc(id, job, Len(writes) + 1))
          /\ writes' = Append(writes, [run |-> r, id |-> id, job |-> job, ok |-> TRUE])
    /\ idx' = [idx EXCEPT ![r] = @ + 1]
    /\ pc' = [pc EXCEPT ![r] = "loop"]
    /\ UNCHANGED <<jobs, newJobs, outcome, exitCode, checks, dispatched, delivery, failures>>
    /\ UNCHANGED <<rows, walkVars, retryVars, callVars>>

\* await saveJobToHistory(id, job): setDoc rejects and stores nothing, the
\* error reaches the catch block
LoopSaveFail(r) ==
    /\ pc[r] = "save"
    /\ CanFail
    /\ writes' = Append(writes, [run |-> r, id |-> JobIdOf(CurrentJob(r)),
                                 job |-> CurrentJob(r), ok |-> FALSE])
    /\ outcome' = [outcome EXCEPT ![r] = [status |-> "thrown", message |-> "setDoc failed"]]
    /\ pc' = [pc EXCEPT ![r] = "catch"]
    /\ failures' = failures + 1
    /\ UNCHANGED <<jobs, idx, newJobs, exitCode, store, checks, dispatched, delivery>>
    /\ UNCHANGED <<rows, walkVars, retryVars, callVars>>

\* after the loop, newJobs.length > 0: sort, sendTelegram, return
ReportNew(r) ==
    /\ pc[r] = "loop"
    /\ idx[r] > Len(jobs[r])
    /\ Len(newJobs[r]) > 0
    /\ newJobs' = [newJobs EXCEPT ![r] = SortVacantFirst(@)]
    /\ dispatched' = Append(dispatched,
                            [run |-> r, kind |-> "digest",
                             jobs |-> SortVacantFirst(newJobs[r])])
    /\ \E d \in Deliveries :
         /\ delivery' = [delivery EXCEPT ![r] = d]
         /\ IF sendTelegram(d) = "raised"
            THEN /\ outcome' = [outcome EXCEPT ![r] =
                                  [status |-> "thrown", message |-> "fetch failed"]]
                 /\ pc' = [pc EXCEPT ![r] = "catch"]
            ELSE /\ outcome' = [outcome EXCEPT ![r] =
                                  [status |-> "success", new |-> Len(newJobs[r])]]
                 /\ pc' = [pc EXCEPT ![r] = "done"]
    /\ UNCHANGED <<jobs, idx, exitCode, store, checks, writes, failures>>
    /\ UNCHANGED <<rows, walkVars, retryVars, callVars>>

\* after the loop, newJobs is empty: return { status: "success", new: 0 }
ReportNone(r) ==
    /\ pc[r] = "loop"
    /\ idx[r] > Len(jobs[r])
    /\ Len(newJobs[r]) = 0
    /\ outcome' = [outcome EXCEPT ![r] = [status |-> "success", new |-> 0]]
    /\ pc' = [pc EXCEPT ![r] = "done"]
    /\ UNCHANGED <<jobs, idx, newJobs, exitCode, store, checks, writes, dispatched, delivery,
                   failures>>
    /\ UNCHANGED <<rows, walkVars, retryVars, callVars>>

\* catch (e): sendTelegram(error text), return { status: "error", message };
\* an error raised inside the catch block leaves mainScraper
Catch(r) ==
    /\ pc[r] = "catch"
    /\ dispatched' = Append(dispatched, [run |-> r, kind |-> "error", jobs |-> <<>>])
    /\ \E d \in Deliveries :
         /\ delivery' = [delivery EXCEPT ![r] = d]
         /\ outcome' = [outcome EXCEPT ![r] =
                          IF sendTelegram(d) = "raised"
                          THEN [status |-> "thrown", message |-> "fetch failed"]
                          ELSE [status |-> "error", message |-> @.message]]
    /\ pc' = [pc EXCEPT ![r] = "done"]
    /\ UNCHANGED <<jobs, idx, newJobs, exitCode, store, checks, writes, failures>>
    /\ UNCHANGED <<rows, walkVars, retryVars, callVars>>

\* await mainScraper(); process.exit(0): the process and what it knew of its
\* sendTelegram call are gone.  Were mainScraper to end with an error, the
\* await would throw, process.exit(0) would not be reached and the runtime
\* would end the process with code 1 (unhandled rejection)
ProcessExit(r) ==
    /\ pc[r] = "done"
    /\ exitCode' = [exitCode EXCEPT ![r] =
                      IF outcome[r].status = "thrown" THEN 1 ELSE 0]
    /\ pc' = [pc EXCEPT ![r] = "exited"]
    /\ delivery' = [delivery EXCEPT ![r] = "none"]
    /\ UNCHANGED <<jobs, idx, newJobs, outcome, store, checks, writes, dispatched,
                   failures>>
    /\ UNCHANGED <<rows, walkVars, retryVars, callVars>>

Next ==
    \E r \in Runs :
        \/ RunAbort(r)
        \/ RunNoTable(r)
        \/ RunScrape(r)
        \/ LoopSkip(r)
        \/ LoopCheck(r)
        \/ LoopCheckFail(r)
        \/ LoopSave(r)
        \/ LoopSaveFail(r)
        \/ ReportNew(r)
        \/ ReportNone(r)
        \/ Catch(r)
        \/ ProcessExit(r)

Spec == Init /\ [][Next]_vars

(***************************************************************************)
(* Runs that overlap: the process is started again while earlier starts    *)
(* are still running, on the same store.  Nothing in mainScraper or at its *)
(* call keeps a second process from starting; the runs here are two, and   *)
(* both get as far as reading the table.                                   *)
(***************************************************************************)
OverlapRuns == {1, 2}

OverlapInit ==
    /\ rows \in Tables(SnapshotRows, MaxOverlapRows)
    /\ WalkIdle
    /\ RetryIdle
    /\ MainIdle
    /\ CallIdle

\* const jobs = await page.evaluate(...), in a process started at any time
RunScrapeOverlapping(r) ==
    /\ r \in OverlapRuns
    /\ pc[r] = "idle"
    /\ jobs' = [jobs EXCEPT ![r] = WalkAll(rows)]
    /\ idx' = [idx EXCEPT ![r] = 1]
    /\ pc' = [pc EXCEPT ![r] = "loop"]
    /\ UNCHANGED <<newJobs, outcome, exitCode, store, checks, writes, dispatched, delivery,
                   failures>>
    /\ UNCHANGED <<rows, walkVars, retryVars, callVars>>

NextOverlap ==
    \E r \in Runs :
        \/ RunScrapeOverlapping(r)
        \/ LoopSkip(r)
        \/ LoopCheck(r)
        \/ LoopCheckFail(r)
        \/ LoopSave(r)
        \/ LoopSaveFail(r)
        \/ ReportNew(r)
        \/ ReportNone(r)
        \/ Catch(r)
        \/ ProcessExit(r)

SpecOverlap == OverlapInit /\ [][NextOverlap]_vars

(***************************************************************************)
(* createJobId, called on two triples of field texts.                      *)
(***************************************************************************)
FieldTriples ==
    {Job(d, e, h) : d \in {"", "a", "ab", "A ", "Mon 1 Jan", "|"},
                    e \in {"", "bc", "c", "B  c", "|"},
                    h \in {"", "Dr. A"}}

IdentityInit ==
    /\ triples \in FieldTriples \X FieldTriples
    /\ jobIds = <<"", "">>
    /\ rawText = ""
    /\ now = <<>>
    /\ wallClock = <<>>
    /\ extracted = <<>>
    /\ scraper = [pc |-> "idle"]
    /\ rows = <<>>
    /\ WalkIdle
    /\ RetryIdle
    /\ MainIdle

\* const id = createJobId(job.date, job.eventName, job.doctorName)
CreateJobId(k) ==
    /\ jobIds[k] = ""
    /\ jobIds' = [jobIds EXCEPT ![k] = JobIdOf(triples[k])]
    /\ UNCHANGED <<triples, rawText, now, wallClock, extracted, scraper>>
    /\ UNCHANGED <<rows, walkVars, retryVars, mainVars>>

IdentityNext == \E k \in 1..2 : CreateJobId(k)

SpecIdentity == IdentityInit /\ [][IdentityNext]_vars

(***************************************************************************)
(* extractDateOnly and parseFlexibleDate.  clock is the calendar date that *)
(* new Date() gives when the function runs.                                *)
(***************************************************************************)
\* the value that stands for null among the texts extractDateOnly returns
null == "null"

\* parseFlexibleDate(text): the Date, or InvalidDate for null
parseFlexibleDate(text, clock) ==
    IF text = "" THEN InvalidDate
    ELSE IF DateParse(text) # InvalidDate THEN DateParse(text)
    ELSE DateParse(text \o " " \o NatToText(clock.year))

\* the digits s[i..j] are there
DigitsAt(s, i, j) == \A k \in i..j : IsDigit(Ch(s, k))

\* /\b(\d{1,2})[\/\-](\d{1,2})(?:[\/\-](\d{2,4}))?\b/ at position i with
\* a, b and c digits in its three groups (c = 0: the last group is absent):
\* the position after the match, or 0
MonthDayEnd(s, i, a, b, c) ==
    LET p == i + a + 1
        q == p + b
        e == IF c = 0 THEN q ELSE q + 1 + c
    IN IF /\ WordBoundary(s, i)
          /\ DigitsAt(s, i, i + a - 1)
          /\ Ch(s, i + a) \in {"/", "-"}
          /\ DigitsAt(s, p, q - 1)
          /\ c # 0 => (Ch(s, q) \in {"/", "-"} /\ DigitsAt(s, q + 1, q + c))
          /\ WordBoundary(s, e)
       THEN e
       ELSE 0

\* the ways to match, in the order the expression tries them
MonthDayShapes ==
    <<<<2, 2, 4>>, <<2, 2, 3>>, <<2, 2, 2>>, <<2, 2, 0>>,
      <<2, 1, 4>>, <<2, 1, 3>>, <<2, 1, 2>>, <<2, 1, 0>>,
      <<1, 2, 4>>, <<1, 2, 3>>, <<1, 2, 2>>, <<1, 2, 0>>,
      <<1, 1, 4>>, <<1, 1, 3>>, <<1, 1, 2>>, <<1, 1, 0>>>>

\* the date of the match h, a position and the index of a shape
ReadMonthDay(s, h, ref) ==
    LET i == h[1]
        a == MonthDayShapes[h[2]][1]
        b == MonthDayShapes[h[2]][2]
        c == MonthDayShapes[h[2]][3]
        month == NumberOf(s, i, i + a - 1)
        day == NumberOf(s, i + a + 1, i + a + b)
        year == IF c = 0 THEN ref.year
                ELSE NumberOf(s, i + a + b + 2, i + a + b + 1 + c)
    IN IF IsMonth(month) /\ IsDay(day)
       THEN formatDateISO(MakeDate(year, month, day))
       ELSE null

\* s.match(...) over the matches hits of s, positions with shapes: null
\* without a match, else the date of the leftmost match, in the first shape
\* that matches there
ReadFirstHit(s, hits, ref) ==
    IF hits = {} THEN null
    ELSE ReadMonthDay(s,
             CHOOSE x \in hits :
                 \A y \in hits : x[1] < y[1] \/ (x[1] = y[1] /\ x[2] <= y[2]),
             ref)

\* the mm/dd fallback: the text for the first match, or null
monthDayFallback(s, ref) ==
    ReadFirstHit(s,
        {h \in (1..Len(s)) \X (1..Len(MonthDayShapes)) :
            MonthDayEnd(s, h[1], MonthDayShapes[h[2]][1],
                        MonthDayShapes[h[2]][2], MonthDayShapes[h[2]][3]) # 0},
        ref)

\* the last three steps, on the Date parseFlexibleDate gave
dateOrFallback(parsed, s, ref) ==
    IF parsed # InvalidDate THEN formatDateISO(parsed)
    ELSE monthDayFallback(s, ref)

\* the steps after the removals, on the text s they left
readCleaned(s, ref, clock) ==
    IF monthPattern(s) /\ ~hasClockDigits(stripTrailingComma(s))
    THEN stripTrailingComma(s)
    ELSE dateOrFallback(parseFlexibleDate(s, clock), s, ref)

\* the steps after the white space of rawText is normalized
readText(s, ref, clock) ==
    IF HasWord(toLowerCase(s), "today") THEN formatDateISO(ref)
    ELSE IF HasWord(toLowerCase(s), "yesterday")
    THEN formatDateISO(PreviousDay(ref))
    ELSE readCleaned(cleanDateText(s), ref, clock)

\* extractDateOnly(rawText, now), run while the wall clock shows clock
extractDateOnly(raw, ref, clock) ==
    IF raw = "" THEN null
    ELSE readText(collapseWhitespace(trim(raw)), ref, clock)

(***************************************************************************)
(* extractDateOnly, called on one text and one reference instant, at       *)
(* moments the wall clock moves between.                                   *)
(***************************************************************************)
\* month-named dates, and what can follow them: a time introducer, a clock
\* time and a timezone abbreviation
MonthDates == {"Dec 20, 2025", "December 20, 2025", "Sept 5", "October 5"}
TimeSuffixes == {" at 3:30pm EST", " 3:30 PM GMT"}

DateTexts ==
    {d \o t : d \in MonthDates, t \in TimeSuffixes}
      \cup {"", "Today", "Posted yesterday", "Friday", "12/25", "12/25 onwards"}

ReferenceInstants == {Date(2025, 6, 15), Date(2026, 1, 1)}

RECURSIVE WallClockAfter(_)
WallClockAfter(n) ==
    IF n = 0 THEN Date(2025, 12, 31) ELSE NextDay(WallClockAfter(n - 1))

DateInit ==
    /\ rawText \in DateTexts
    /\ now \in ReferenceInstants
    /\ wallClock = WallClockAfter(0)
    /\ extracted = <<>>
    /\ scraper = [pc |-> "idle"]
    /\ triples = <<>>
    /\ jobIds = <<>>
    /\ rows = <<>>
    /\ WalkIdle
    /\ RetryIdle
    /\ MainIdle

\* const dateOnly = extractDateOnly(rawText, now)
ExtractDateOnly ==
    /\ Len(extracted) < MaxCalls
    /\ extracted' = Append(extracted,
                           [at |-> wallClock,
                            value |-> extractDateOnly(rawText, now, wallClock)])
    /\ UNCHANGED <<triples, jobIds, rawText, now, wallClock, scraper>>
    /\ UNCHANGED <<rows, walkVars, retryVars, mainVars>>

\* midnight passes
ClockTick ==
    /\ wallClock # WallClockAfter(MaxDays)
    /\ wallClock' = NextDay(wallClock)
    /\ UNCHANGED <<triples, jobIds, rawText, now, extracted, scraper>>
    /\ UNCHANGED <<rows, walkVars, retryVars, mainVars>>

DateNext == ExtractDateOnly \/ ClockTick

SpecDate == DateInit /\ [][DateNext]_vars

(***************************************************************************)
(* runScraper and its entrypoint (src/index.js), one process.  A step      *)
(* starts an external call or sees one settle.  scraper.inFlight holds the *)
(* calls that have started and not settled; a call is awaited when the     *)
(* function waits for it before it goes on.                                *)
(***************************************************************************)
ScraperInit ==
    /\ scraper \in [pc : {"start"}, inFlight : {{}}, tries : {0},
                    batches : 0..MaxBatches, browser : {FALSE},
                    telegram : BOOLEAN, sendSummary : BOOLEAN,
                    result : {"none"}, exitCode : {-1}, lost : {{}}]
    /\ triples = <<>>
    /\ jobIds = <<>>
    /\ rawText = ""
    /\ now = <<>>
    /\ wallClock = <<>>
    /\ extracted = <<>>
    /\ rows = <<>>
    /\ WalkIdle
    /\ RetryIdle
    /\ MainIdle

\* the position after the call awaited at position p has let the function
\* go on; n is the number of batches still to commit
AfterCall(p, n) ==
    CASE p = "launch" -> "newPage"
      [] p = "newPage" -> "goto"
      [] p = "goto" -> "waitForSelector"
      [] p = "waitForSelector" -> "$$eval"
      [] p = "$$eval" -> IF n > 0 THEN "commit" ELSE "summary"
      [] p = "commit" -> IF n > 1 THEN "commit" ELSE "summary"
      [] p = "catch" -> "finally"
      [] p = "finally" -> "returned"
      [] p = "toplevel" -> "failed"

\* initFirebase() and the test of SCRAPE_URL: they pass, or one of them
\* throws outside the try block and the error reaches the entrypoint
ScraperStart ==
    /\ scraper.pc = "start"
    /\ \E ok \in BOOLEAN :
         scraper' = IF ok THEN [scraper EXCEPT !.pc = "launch"]
                    ELSE [scraper EXCEPT !.pc = "toplevel", !.result = "thrown"]
    /\ UNCHANGED <<triples, jobIds, rawText, now, wallClock, extracted>>
    /\ UNCHANGED <<rows, walkVars, retryVars, mainVars>>

\* await of an external call: the call starts.  sendTelegramMessage without
\* token or chat id, and the finally block without a browser, make no call
StartCall ==
    /\ scraper.pc \in {"launch", "newPage", "goto", "waitForSelector", "$$eval",
                       "commit", "catch", "finally", "toplevel"}
    /\ \A c \in scraper.inFlight : ~c.awaited
    /\ scraper' =
         IF \/ scraper.pc \in {"catch", "toplevel"} /\ ~scraper.telegram
            \/ scraper.pc = "finally" /\ ~scraper.browser
         THEN [scraper EXCEPT
                 !.pc = AfterCall(@, scraper.batches),
                 !.result = IF scraper.pc = "catch" THEN "failure" ELSE @]
         ELSE [scraper EXCEPT
                 !.inFlight = @ \cup
                    {[call |-> IF scraper.pc \in {"catch", "toplevel"}
                               THEN "sendMessage" ELSE scraper.pc,
                      awaited |-> TRUE]}]
    /\ UNCHANGED <<triples, jobIds, rawText, now, wallClock, extracted>>
    /\ UNCHANGED <<rows, walkVars, retryVars, mainVars>>

\* the awaited call settles.  retry calls page.goto and batch.commit up to
\* three times and page.waitForSelector up to two times; an error of the
\* last call of waitForSelector is caught and the function goes on; an error
\* of sendTelegramMessage or browser.close is caught where it is awaited;
\* any other error goes to the catch block
CallSettles ==
    /\ \E c \in scraper.inFlight : \E ok \in BOOLEAN :
         /\ c.awaited
         /\ LET p == scraper.pc
                allowed == IF p \in {"goto", "commit"} THEN 3
                           ELSE IF p = "waitForSelector" THEN 2
                           ELSE 1
                landed == [scraper EXCEPT !.inFlight = @ \ {c}, !.tries = 0]
            IN scraper' =
                 IF ok \/ p \in {"catch", "finally", "toplevel"}
                 THEN [landed EXCEPT
                         !.pc = AfterCall(p, scraper.batches),
                         !.batches = IF p = "commit" THEN @ - 1 ELSE @,
                         !.browser = @ \/ p = "launch",
                         !.result = IF p = "catch" THEN "failure" ELSE @]
                 ELSE IF scraper.tries + 1 < allowed
                 THEN [landed EXCEPT !.tries = scraper.tries + 1]
                 ELSE IF p = "waitForSelector"
                 THEN [landed EXCEPT !.pc = "$$eval"]
                 ELSE [landed EXCEPT !.pc = "catch"]
    /\ UNCHANGED <<triples, jobIds, rawText, now, wallClock, extracted>>
    /\ UNCHANGED <<rows, walkVars, retryVars, mainVars>>

\* if (SEND_SUMMARY !== 'false') sendTelegramMessage(...), without await;
\* return { success: true, ... }
SummaryNotAwaited ==
    /\ scraper.pc = "summary"
    /\ scraper' =
         [scraper EXCEPT
            !.inFlight = IF scraper.sendSummary /\ scraper.telegram
                         THEN @ \cup {[call |-> "sendMessage", awaited |-> FALSE]}
                         ELSE @,
            !.result = "success",
            !.pc = "finally"]
    /\ UNCHANGED <<triples, jobIds, rawText, now, wallClock, extracted>>
    /\ UNCHANGED <<rows, walkVars, retryVars, mainVars>>

\* the fetch of a message nobody waits for settles
FetchSettles ==
    /\ \E c \in scraper.inFlight :
         /\ ~c.awaited
         /\ scraper' = [scraper EXCEPT !.inFlight = @ \ {c}]
    /\ UNCHANGED <<triples, jobIds, rawText, now, wallClock, extracted>>
    /\ UNCHANGED <<rows, walkVars, retryVars, mainVars>>

\* process.exit(2), process.exit(0) or, after an error at top level,
\* process.exit(1): the calls in flight end with the process
ScraperExit ==
    /\ scraper.pc \in {"returned", "failed"}
    /\ scraper' =
         [scraper EXCEPT
            !.exitCode = IF scraper.pc = "failed" THEN 1
                         ELSE IF scraper.result = "success" THEN 0
                         ELSE 2,
            !.lost = scraper.inFlight,
            !.inFlight = {},
            !.pc = "exited"]
    /\ UNCHANGED <<triples, jobIds, rawText, now, wallClock, extracted>>
    /\ UNCHANGED <<rows, walkVars, retryVars, mainVars>>

ScraperNext ==
    \/ ScraperStart
    \/ StartCall
    \/ CallSettles
    \/ SummaryNotAwaited
    \/ FetchSettles
    \/ ScraperExit

SpecScraper == ScraperInit /\ [][ScraperNext]_vars

(***************************************************************************)
(* Vocabulary of the properties.                                           *)
(***************************************************************************)
\* the records of the walks of all tables a run can read, and the jobId of
\* each of them, computed once with WalkAll and JobIdOf
RecordsOfTables ==
    UNION {{WalkAll(t)[k] : k \in 1..Len(WalkAll(t))} :
             t \in Tables(SnapshotRows, MaxSnapshotRows)}

IdOfRecord == [j \in RecordsOfTables |-> JobIdOf(j)]

IdOf(job) == IdOfRecord[job]

Finished(r) == pc[r] \in {"done", "exited"}

\* run r read candidates from the table, went through all of them and
\* returned success (a run that found no table has no candidates)
Completed(r) ==
    Finished(r) /\ outcome[r].status = "success" /\ jobs[r] # <<>>

\* the candidates of run r that the loop does not skip
ResolvedCandidates(r) ==
    {k \in 1..Len(jobs[r]) : ~SkipJob(jobs[r][k])}

SnapshotIds(r) == {IdOf(jobs[r][k]) : k \in ResolvedCandidates(r)}

\* setDoc calls of run r for id: all of them, and those that resolved
WriteCalls(r, id) ==
    {k \in 1..Len(writes) : writes[k].run = r /\ writes[k].id = id}

OkWrites(r, id) == {k \in WriteCalls(r, id) : writes[k].ok}

AllOkWrites(id) == UNION {OkWrites(r, id) : r \in Runs}

\* positions of id in the new sequence of run r
NewPositions(r, id) ==
    {k \in 1..Len(newJobs[r]) : IdOf(newJobs[r][k]) = id}

\* the digests handed to sendTelegram that list id
DigestsWith(id) ==
    {k \in 1..Len(dispatched) :
        /\ dispatched[k].kind = "digest"
        /\ \E j \in 1..Len(dispatched[k].jobs) : IdOf(dispatched[k].jobs[j]) = id}

(***************************************************************************)
(* C1.  Across non-overlapping runs over the same table, once a run has    *)
(* gone through the whole table successfully, every record identity of the *)
(* table has been written to the store exactly once and has been listed in *)
(* exactly one digest handed to the notification sender.                   *)
(***************************************************************************)
C1_WrittenAndNotifiedOnce ==
    \A r \in Runs :
        Completed(r) =>
            \A id \in SnapshotIds(r) :
                /\ Cardinality(AllOkWrites(id)) = 1
                /\ Cardinality(DigestsWith(id)) = 1

(***************************************************************************)
(* C2.  Two runs in sequence that both complete on the same candidates,    *)
(* some of them with a resolved date: the first run on the empty store has *)
(* a non-empty new sequence; the later of two consecutive completed runs   *)
(* has an empty new sequence and makes no setDoc call.                     *)
(***************************************************************************)
C2_SecondRunFindsNothingNew ==
    /\ (Completed(1) /\ ResolvedCandidates(1) # {}) => newJobs[1] # <<>>
    /\ \A r \in Runs :
         (r + 1 \in Runs /\ Completed(r) /\ Completed(r + 1)
                         /\ jobs[r + 1] = jobs[r]
                         /\ ResolvedCandidates(r) # {}) =>
             /\ newJobs[r + 1] = <<>>
             /\ \A k \in 1..Len(writes) : writes[k].run # r + 1

C2_Witness ==
    /\ Completed(1)
    /\ Completed(2)
    /\ jobs[2] = jobs[1]
    /\ ResolvedCandidates(1) # {}
    /\ Len(newJobs[1]) > 0

(***************************************************************************)
(* C3.  Within one run, when two candidates have the same jobId (and a     *)
(* resolved date), setDoc is called at most once for that jobId and the    *)
(* new sequence holds the jobId at most once; a first run that completes   *)
(* has written it exactly once and lists it exactly once, and it has       *)
(* looked every one of these candidates up in the store (the later ones    *)
(* are skipped by the existence check, which sees the write).              *)
(***************************************************************************)
\* getDoc calls of run r for id that resolved
OkChecks(r, id) ==
    {k \in 1..Len(checks) : checks[k].run = r /\ checks[k].id = id /\ checks[k].ok}

\* candidates of run r with this id that the loop does not skip
CandidatesWith(r, id) ==
    {k \in ResolvedCandidates(r) : IdOf(jobs[r][k]) = id}

\* pairs of positions of jobs[r] with one jobId, both past the skip test
DuplicatePairs(r) ==
    {p \in (1..Len(jobs[r])) \X (1..Len(jobs[r])) :
        /\ p[1] < p[2]
        /\ ~SkipJob(jobs[r][p[1]])
        /\ ~SkipJob(jobs[r][p[2]])
        /\ IdOf(jobs[r][p[1]]) = IdOf(jobs[r][p[2]])}

C3_DuplicateWrittenOnce ==
    \A r \in Runs :
        \A p \in DuplicatePairs(r) :
            LET id == IdOf(jobs[r][p[1]])
            IN /\ Cardinality(WriteCalls(r, id)) <= 1
               /\ Cardinality(NewPositions(r, id)) <= 1
               /\ (r = 1 /\ Completed(r)) =>
                      /\ Cardinality(OkWrites(r, id)) = 1
                      /\ Cardinality(NewPositions(r, id)) = 1
                      /\ Cardinality(OkChecks(r, id))
                            = Cardinality(CandidatesWith(r, id))

C3_Witness ==
    /\ Completed(1)
    /\ \E p \in DuplicatePairs(1) :
         /\ jobs[1][p[1]] # jobs[1][p[2]]
         /\ Cardinality(OkWrites(1, IdOf(jobs[1][p[1]]))) = 1

(***************************************************************************)
(* C4.  As stated: every record the walk emits has a date other than       *)
(* 'Unknown Date' and an eventName other than 'Unknown Event', whichever   *)
(* kind of row emitted it.                                                 *)
(***************************************************************************)
C4_Original ==
    \A k \in 1..Len(results) :
        results[k].date # UNKNOWN_DATE /\ results[k].eventName # UNKNOWN_EVENT

\* no date-heading row stands before row i
NoDateRowBefore(i) ==
    \A j \in 1..(i - 1) : RowKind(Cells(rows[j])) # "date"

(***************************************************************************)
(* C4, amended.  Every emitted record has an eventName other than          *)
(* 'Unknown Event'; a record emitted by a role-match row has a date other  *)
(* than 'Unknown Date'; a record emitted by a time-range row carries the   *)
(* current date, which is 'Unknown Date' exactly when no date-heading row  *)
(* stands before that row.                                                 *)
(***************************************************************************)
C4_Amended ==
    /\ Len(emitted) = Len(results)
    /\ \A k \in 1..Len(results) :
         /\ results[k].eventName # UNKNOWN_EVENT
         /\ emitted[k].kind \in {"time", "role"}
         /\ emitted[k].kind = "role" => results[k].date # UNKNOWN_DATE
         /\ emitted[k].kind = "time" =>
              (results[k].date = UNKNOWN_DATE <=> NoDateRowBefore(emitted[k].row))

C4_Witness ==
    /\ WalkDone
    /\ \E k \in 1..Len(results) :
         emitted[k].kind = "time" /\ results[k].date = UNKNOWN_DATE
    /\ \E k \in 1..Len(results) :
         emitted[k].kind = "time" /\ results[k].date # UNKNOWN_DATE

(***************************************************************************)
(* C5.  As stated: the rows ["Mon 1 Jan"], ["09:00 - 10:00","Ward Round",  *)
(* "Doctor","","Dr. A"], ["Doctor","Dr. B"] give exactly the records       *)
(* (Mon 1 Jan, Ward Round, Dr. A) and (Mon 1 Jan, Ward Round, Dr. B).      *)
(***************************************************************************)
C5Rows ==
    << <<"Mon 1 Jan">>,
       <<"09:00 - 10:00", "Ward Round", "Doctor", "", "Dr. A">>,
       <<"Doctor", "Dr. B">> >>

\* the same table with the holder of the role row in cell index 2
C5RowsNameInCell2 ==
    << <<"Mon 1 Jan">>,
       <<"09:00 - 10:00", "Ward Round", "Doctor", "", "Dr. A">>,
       <<"Doctor", "", "Dr. B">> >>

C5_Original ==
    (rows = C5Rows /\ WalkDone) =>
        results = << Job("Mon 1 Jan", "Ward Round", "Dr. A"),
                     Job("Mon 1 Jan", "Ward Round", "Dr. B") >>

(***************************************************************************)
(* C5, amended.  The role-match row reuses the date and event and takes    *)
(* the holder from its cell index 2, 'Unassigned' when it has fewer than   *)
(* three cells: the rows of the example give (Mon 1 Jan, Ward Round,       *)
(* Dr. A) then (Mon 1 Jan, Ward Round, Unassigned); with the third row     *)
(* ["Doctor","","Dr. B"] the second record is (Mon 1 Jan, Ward Round,      *)
(* Dr. B).                                                                 *)
(***************************************************************************)
C5_Amended ==
    /\ (rows = C5Rows /\ WalkDone) =>
           results = << Job("Mon 1 Jan", "Ward Round", "Dr. A"),
                        Job("Mon 1 Jan", "Ward Round", UNASSIGNED) >>
    /\ (rows = C5RowsNameInCell2 /\ WalkDone) =>
           results = << Job("Mon 1 Jan", "Ward Round", "Dr. A"),
                        Job("Mon 1 Jan", "Ward Round", "Dr. B") >>

C5_Witness == rows = C5Rows /\ WalkDone /\ Len(results) = 2

(***************************************************************************)
(* C6.  A step over a role-match row (first cell equal to the target role) *)
(* pushes a record if and only if the current date and the current event   *)
(* are both resolved; the record is made of that date and event; a         *)
(* role-match row before any date-heading row, or after a date-heading row *)
(* with no time-range row of two or more cells since, pushes nothing.      *)
(***************************************************************************)
AtRoleRow ==
    /\ rowIdx <= Len(rows)
    /\ Len(CurrentCells) > 0
    /\ CurrentCells[1] = TARGET_ROLE

\* no row since the last date-heading row has assigned currentEvent
NoEventSinceDate ==
    \E d \in 1..(rowIdx - 1) :
        /\ RowKind(Cells(rows[d])) = "date"
        /\ \A j \in (d + 1)..(rowIdx - 1) :
             ~(RowKind(Cells(rows[j])) = "time" /\ Len(rows[j]) > 1)

C6_RoleRowEmitsIffResolved ==
    [][AtRoleRow =>
          /\ (Len(results') = Len(results) + 1)
                <=> (currentDate # UNKNOWN_DATE /\ currentEvent # UNKNOWN_EVENT)
          /\ Len(results') # Len(results) =>
                /\ results'[Len(results')].date = currentDate
                /\ results'[Len(results')].eventName = currentEvent
                /\ SubSeq(results', 1, Len(results)) = results
          /\ (NoDateRowBefore(rowIdx) \/ NoEventSinceDate) => results' = results
      ]_vars

C6_Witness ==
    /\ WalkDone
    /\ \E k \in 1..Len(results) : emitted[k].kind = "role"

(***************************************************************************)
(* C7.  No candidate whose date is 'Unknown Date' is passed to getDoc or   *)
(* setDoc, enters a new sequence or is listed in a notification.           *)
(***************************************************************************)
C7_UnknownDateNeverProcessed ==
    /\ \A k \in 1..Len(checks) : checks[k].job.date # UNKNOWN_DATE
    /\ \A k \in 1..Len(writes) : writes[k].job.date # UNKNOWN_DATE
    /\ \A id \in DOMAIN store : store[id].job.date # UNKNOWN_DATE
    /\ \A r \in Runs : \A k \in 1..Len(newJobs[r]) :
         newJobs[r][k].date # UNKNOWN_DATE
    /\ \A k \in 1..Len(dispatched) : \A j \in 1..Len(dispatched[k].jobs) :
         dispatched[k].jobs[j].date # UNKNOWN_DATE

C7_Witness ==
    /\ Completed(1)
    /\ \E k \in 1..Len(jobs[1]) : jobs[1][k].date = UNKNOWN_DATE
    /\ Len(checks) > 0
    /\ Len(dispatched) > 0

(***************************************************************************)
(* C8.  When every call of fn fails and attempts = n >= 1, retry calls fn  *)
(* exactly n times, calls onRetry exactly n - 1 times, with the attempt    *)
(* numbers 1..n-1 and the error of that attempt, and then raises the error *)
(* of the last call.                                                       *)
(***************************************************************************)
AllCallsFailed == \A k \in 1..Len(fnCalls) : ~fnCalls[k].ok

C8_ExhaustionRaisesLastError ==
    (RetryDone /\ AllCallsFailed /\ attempts >= 1) =>
        /\ retryPc = "raised"
        /\ Len(fnCalls) = attempts
        /\ retryResult = [status |-> "error", err |-> fnCalls[attempts].err]
        /\ Len(observed) = (IF hasOnRetry THEN attempts - 1 ELSE 0)
        /\ \A k \in 1..Len(observed) :
             observed[k].attempt = k /\ observed[k].err = fnCalls[k].err

C8_Witness ==
    /\ retryPc = "raised"
    /\ attempts = 3
    /\ hasOnRetry
    /\ Len(fnCalls) = 3
    /\ Len(observed) = 2

(***************************************************************************)
(* C9.  If setDoc fails for a candidate in run r, then when run r is over  *)
(* the store holds no document under that jobId, and the next run, when it *)
(* completes on the same candidates, finds the jobId absent, writes it and *)
(* has it in its new sequence and its digest.                              *)
(***************************************************************************)
FailedWrites(r) == {k \in 1..Len(writes) : writes[k].run = r /\ ~writes[k].ok}

C9_FailedWriteRetriedNextRun ==
    \A r \in Runs : \A k \in FailedWrites(r) :
        LET id == writes[k].id
        IN /\ (Finished(r) /\ (r + 1 \in Runs => pc[r + 1] = "idle")) =>
                 id \notin DOMAIN store
           /\ (r + 1 \in Runs /\ Completed(r + 1) /\ jobs[r + 1] = jobs[r]) =>
                 /\ \E c \in 1..Len(checks) :
                      checks[c].run = r + 1 /\ checks[c].id = id /\ checks[c].ok
                 /\ Cardinality(OkWrites(r + 1, id)) = 1
                 /\ Cardinality(NewPositions(r + 1, id)) = 1
                 /\ \E g \in DigestsWith(id) : dispatched[g].run = r + 1
                 /\ id \in DOMAIN store

C9_Witness ==
    /\ FailedWrites(1) # {}
    /\ Completed(2)
    /\ \A k \in FailedWrites(1) : writes[k].id \in DOMAIN store

(***************************************************************************)
(* C10.  As stated: the store calls of the dedupe-and-persist loop go      *)
(* through retry, so a run ends with a store error only after a store call *)
(* has failed RETRY_ATTEMPTS times.                                        *)
(***************************************************************************)
StoreErrors == {"getDoc failed", "setDoc failed"}

\* store calls of run r that failed
FailedStoreCalls(r) ==
    Cardinality({k \in 1..Len(checks) : checks[k].run = r /\ ~checks[k].ok})
      + Cardinality(FailedWrites(r))

C10_StoreErrorOnlyAfterRetries ==
    \A r \in Runs :
        (Finished(r) /\ outcome[r].status = "error"
                     /\ outcome[r].message \in StoreErrors) =>
            FailedStoreCalls(r) >= RETRY_ATTEMPTS

(***************************************************************************)
(* C11.  The digest a run hands to the notification sender lists every new *)
(* record whose holder name contains "unassigned" (in any case) before     *)
(* every new record whose holder name does not; within each of the two     *)
(* groups the records are in the order in which the loop found them; and   *)
(* the digest is a permutation of the records the loop found.              *)
(***************************************************************************)
\* the holder name holds "unassigned" at some position, in any case
NamesUnassigned ==
    [j \in RecordsOfTables |->
        \E i \in 1..Len(j.doctorName) :
            /\ i + 9 <= Len(j.doctorName)
            /\ toLowerCase(SubSeq(j.doctorName, i, i + 9)) = "unassigned"]

\* the new records of run r in the order the loop found them: the loop
\* writes each of them as soon as it has found it
FoundByRun(r) ==
    LET w == SelectSeq(writes, LAMBDA x : x.run = r)
    IN [k \in 1..Len(w) |-> w[k].job]

PositionsOf(list, x) == {k \in 1..Len(list) : list[k] = x}

C11_DigestVacantFirstStable ==
    \A g \in 1..Len(dispatched) :
        dispatched[g].kind = "digest" =>
            LET d == dispatched[g].jobs
                f == FoundByRun(dispatched[g].run)
            IN /\ Len(d) = Len(f)
               /\ \A k \in 1..Len(f) :
                    Cardinality(PositionsOf(d, f[k])) =
                        Cardinality(PositionsOf(f, f[k]))
               /\ \A i, j \in 1..Len(d) :
                    (i < j) =>
                        /\ ~(~NamesUnassigned[d[i]] /\ NamesUnassigned[d[j]])
                        /\ (NamesUnassigned[d[i]] = NamesUnassigned[d[j]]) =>
                             \E a \in PositionsOf(f, d[i]) :
                                \E b \in PositionsOf(f, d[j]) : a < b

\* a digest whose order is not the order of discovery: an assigned record
\* was found before an unassigned one
C11_Witness ==
    \E g \in 1..Len(dispatched) :
        /\ dispatched[g].kind = "digest"
        /\ Len(dispatched[g].jobs) = 2
        /\ dispatched[g].jobs # FoundByRun(dispatched[g].run)
        /\ NamesUnassigned[dispatched[g].jobs[1]]
        /\ ~NamesUnassigned[dispatched[g].jobs[2]]

(***************************************************************************)
(* C12.  A notification send never raises to its caller, however it ends   *)
(* (no configuration, fetch threw, response not OK, response OK): the step *)
(* that sends leaves the store as it was and the run returns what it was   *)
(* about to return (success with the number of new records after the loop, *)
(* the error result in the catch block), and the process exits with the    *)
(* same code whichever way the send ended.                                 *)
(***************************************************************************)
\* run r hands a message to sendTelegram in this step
Sends(r) ==
    /\ Len(dispatched') = Len(dispatched) + 1
    /\ dispatched'[Len(dispatched')].run = r

FailedDeliveries == Deliveries \ {"sent"}

C12_SendFailureChangesNothing ==
    /\ [](\A d \in Deliveries :
            sendTelegram(d) = "returned" /\ sendTelegramMessage(d) = "returned")
    /\ [][\A r \in Runs :
            /\ Sends(r) =>
                 /\ store' = store
                 /\ pc'[r] = "done"
                 /\ outcome'[r] =
                      IF pc[r] = "catch"
                      THEN [status |-> "error", message |-> outcome[r].message]
                      ELSE [status |-> "success", new |-> Len(newJobs[r])]
            /\ (pc[r] = "done" /\ pc'[r] = "exited") =>
                 /\ exitCode'[r] = 0
                 /\ outcome'[r] = outcome[r]
                 /\ store' = store]_vars

\* run 1 has ended with the error result; the digest of run 2 was not
\* delivered, and run 2 has returned success with its new records stored
C12_Witness ==
    /\ pc[1] = "exited"
    /\ outcome[1].status = "error"
    /\ pc[2] = "done"
    /\ delivery[2] \in FailedDeliveries
    /\ outcome[2].status = "success"
    /\ outcome[2].new > 0
    /\ \A k \in 1..Len(newJobs[2]) : IdOf(newJobs[2][k]) \in DOMAIN store

(***************************************************************************)
(* C13.  As stated: a process exits with code 0 exactly when its run       *)
(* returned success, with one non-zero code when the run returned a        *)
(* failure result, and with another non-zero code when an error escaped    *)
(* the run.                                                                *)
(***************************************************************************)
C13_ExitCodeTellsOutcome ==
    \E business, unexpected \in 1..3 :
        /\ business # unexpected
        /\ \A r \in Runs :
             pc[r] = "exited" =>
                exitCode[r] = (IF outcome[r].status = "success" THEN 0
                               ELSE IF outcome[r].status = "error" THEN business
                               ELSE unexpected)

(***************************************************************************)
(* C14.  As stated: two triples get the same jobId exactly when their      *)
(* fields are equal after each field, on its own, is lower-cased, has its  *)
(* white space collapsed and is trimmed.  (The digest is one-to-one, so    *)
(* two jobIds are equal exactly when the texts they are taken of are.)     *)
(***************************************************************************)
\* one field, normalized on its own
NormalizedField(text) == trim(collapseWhitespace(toLowerCase(text)))

NormalizedTriple(job) ==
    <<NormalizedField(job.date), NormalizedField(job.eventName),
      NormalizedField(job.doctorName)>>

C14_IdOfNormalizedTriple ==
    (Len(jobIds) = 2 /\ jobIds[1] # "" /\ jobIds[2] # "") =>
        ((NormalizedTriple(triples[1]) = NormalizedTriple(triples[2]))
            <=> (jobIds[1] = jobIds[2]))

(***************************************************************************)
(* C15.  As stated: a text that names a month (in full or abbreviated)     *)
(* with a day and an optional year, followed by a time introducer, a clock *)
(* time and a timezone abbreviation, comes back as the month-form text:    *)
(* month name, day and year kept, only the introducer, the time and the    *)
(* timezone removed.                                                       *)
(***************************************************************************)
C15_MonthFormKept ==
    \A k \in 1..Len(extracted) :
        \A d \in MonthDates : \A t \in TimeSuffixes :
            rawText = d \o t => extracted[k].value = d

(***************************************************************************)
(* C16.  As stated: two calls of the date normalizer with the same raw     *)
(* text and the same reference instant return the same value, whatever the *)
(* wall clock shows when each call is made.                                *)
(***************************************************************************)
C16_SameArgumentsSameValue ==
    \A j, k \in 1..Len(extracted) : extracted[j].value = extracted[k].value

(***************************************************************************)
(* C17.  A step over a row whose first cell starts with a weekday name and *)
(* holds no time range sets currentDate to that cell (the trimmed text of  *)
(* the td), sets currentEvent to 'Unknown Event' and pushes nothing.  A    *)
(* step over a row whose first cell starts with a weekday name and holds a *)
(* time range takes the time-range branch: currentDate stays, and          *)
(* currentEvent is taken from the second cell when there is one.           *)
(***************************************************************************)
\* the loop is at a row with cells
AtRowWithCells == rowIdx <= Len(rows) /\ Len(CurrentCells) > 0

C17_DateRowSetsDate ==
    [][AtRowWithCells =>
          /\ (isDateRow(CurrentCells[1]) /\ ~isTimeRange(CurrentCells[1])) =>
                /\ currentDate' = CurrentCells[1]
                /\ currentEvent' = UNKNOWN_EVENT
                /\ results' = results
          /\ (isDateRow(CurrentCells[1]) /\ isTimeRange(CurrentCells[1])) =>
                /\ currentDate' = currentDate
                /\ Len(CurrentCells) > 1 =>
                      currentEvent' = EventFromCell(CurrentCells[2])
                /\ Len(CurrentCells) = 1 =>
                      (currentEvent' = currentEvent /\ results' = results)
      ]_vars

\* a walk in which a date-heading row set the date and a later row with a
\* weekday name and a time range in its first cell pushed a record under it
C17_Witness ==
    /\ WalkDone
    /\ \E k \in 1..Len(results) :
         /\ emitted[k].kind = "time"
         /\ isDateRow(Cells(rows[emitted[k].row])[1])
         /\ results[k].date # UNKNOWN_DATE
         /\ results[k].date # Cells(rows[emitted[k].row])[1]
         /\ currentDate = results[k].date

(***************************************************************************)
(* C18.  As stated: a step over a time-range row of two or more cells sets *)
(* currentEvent to the second cell with its time ranges removed, or to the *)
(* second cell itself when the removal leaves the empty string; it pushes  *)
(* a record exactly when cell index 2 is the target role and the new       *)
(* currentEvent is not 'Unknown Event'; the record holds currentDate, the  *)
(* new currentEvent and cell index 4, 'Unassigned' when there is none.     *)
(***************************************************************************)
AtTimeRow ==
    /\ rowIdx <= Len(rows)
    /\ Len(CurrentCells) > 1
    /\ isTimeRange(CurrentCells[1])

\* what the step over a time-range row does once currentEvent is assigned
TimeRowPushes ==
    /\ (Len(results') = Len(results) + 1)
          <=> (/\ Len(CurrentCells) > 2
               /\ CurrentCells[3] = TARGET_ROLE
               /\ currentEvent' # UNKNOWN_EVENT)
    /\ Len(results') # Len(results) =>
          /\ results'[Len(results')] =
                Job(currentDate, currentEvent',
                    IF Len(CurrentCells) > 4 THEN CurrentCells[5]
                    ELSE UNASSIGNED)
          /\ SubSeq(results', 1, Len(results)) = results
    /\ Len(results') = Len(results) => results' = results
    /\ currentDate' = currentDate

C18_Original ==
    [][AtTimeRow =>
          /\ currentEvent' = (IF stripTimeRanges(CurrentCells[2]) # ""
                              THEN stripTimeRanges(CurrentCells[2])
                              ELSE CurrentCells[2])
          /\ TimeRowPushes
      ]_vars

(***************************************************************************)
(* C18, amended.  The second cell with its time ranges removed is trimmed, *)
(* and the second cell itself is taken when nothing or only white space is *)
(* left of it; the rest as stated.                                         *)
(***************************************************************************)
C18_Amended ==
    [][AtTimeRow =>
          /\ currentEvent' = (IF trim(stripTimeRanges(CurrentCells[2])) # ""
                              THEN trim(stripTimeRanges(CurrentCells[2]))
                              ELSE CurrentCells[2])
          /\ TimeRowPushes
      ]_vars

\* a walk over a time-range row whose second cell ends in a time range,
\* which pushed a record without it, over one whose second cell is two time
\* ranges with a blank between, and over one of three cells that pushed a
\* record for 'Unassigned'
C18_Witness ==
    /\ WalkDone
    /\ \E k \in 1..Len(results) :
         /\ emitted[k].kind = "time"
         /\ results[k].eventName = "Ward Round"
         /\ Cells(rows[emitted[k].row])[2] # "Ward Round"
    /\ \E k \in 1..Len(results) :
         /\ emitted[k].kind = "time"
         /\ results[k].doctorName = UNASSIGNED
         /\ Len(rows[emitted[k].row]) = 3
    /\ \E i \in 1..Len(rows) :
         /\ RowKind(Cells(rows[i])) = "time"
         /\ Len(rows[i]) > 1
         /\ stripTimeRanges(Cells(rows[i])[2]) = " "

(***************************************************************************)
(* C19.  In every step of the walk currentDate changes only at a           *)
(* date-heading row and currentEvent only at a date-heading row or a       *)
(* time-range row: a role-match row, a row without cells and any other row *)
(* leave both as they are.  Every step pushes at most one record and keeps *)
(* the records pushed before.                                              *)
(***************************************************************************)
AtDateHeading ==
    /\ Len(CurrentCells) > 0
    /\ isDateRow(CurrentCells[1])
    /\ ~isTimeRange(CurrentCells[1])

AtTimeRange == Len(CurrentCells) > 0 /\ isTimeRange(CurrentCells[1])

C19_ContextChangesOnlyAtHeadings ==
    [][rowIdx <= Len(rows) =>
          /\ ~AtDateHeading => currentDate' = currentDate
          /\ (~AtDateHeading /\ ~AtTimeRange) => currentEvent' = currentEvent
          /\ Len(results') \in {Len(results), Len(results) + 1}
          /\ SubSeq(results', 1, Len(results)) = results
          /\ rowIdx' = rowIdx + 1
      ]_vars

\* a walk of three rows with the date and the event resolved by the first
\* two, and a third row that is neither a date-heading nor a time-range row
C19_Witness ==
    /\ WalkDone
    /\ Len(rows) = 3
    /\ RowKind(Cells(rows[1])) = "date"
    /\ RowKind(Cells(rows[2])) = "time"
    /\ RowKind(Cells(rows[3])) \in {"role", "empty", "other"}
    /\ currentDate = Cells(rows[1])[1]
    /\ currentEvent # UNKNOWN_EVENT

(***************************************************************************)
(* C20.  The existence check and the write of a candidate are two steps of *)
(* a run, and the write is not conditional: the step of the check writes   *)
(* nothing, and the step of the write stores the document of this run      *)
(* under the jobId whatever the store holds by then, without a second      *)
(* check.  So, when runs overlap, two runs can both find a jobId absent,   *)
(* both write it and both list it in their digest.                         *)
(***************************************************************************)
C20_CheckAndWriteAreApart ==
    [][\A r \in Runs :
          /\ (pc[r] = "loop" /\ pc'[r] = "save") =>
                /\ isJobNew(store, IdOf(jobs[r][idx[r]]))
                /\ store' = store
                /\ writes' = writes
          /\ (pc[r] = "save" /\ pc'[r] = "loop") =>
                /\ IdOf(jobs[r][idx[r]]) \in DOMAIN store'
                /\ store'[IdOf(jobs[r][idx[r]])].savedAt = Len(writes')
                /\ writes'[Len(writes')] =
                      [run |-> r, id |-> IdOf(jobs[r][idx[r]]),
                       job |-> jobs[r][idx[r]], ok |-> TRUE]
                /\ checks' = checks
      ]_vars

\* two runs that overlapped: each found the same jobId absent, each wrote it
\* and each listed it in the digest it handed to sendTelegram
C20_Witness ==
    \E id \in DOMAIN store :
        \A r \in OverlapRuns :
             /\ Completed(r)
             /\ OkChecks(r, id) # {}
             /\ NewPositions(r, id) # {}
             /\ OkWrites(r, id) # {}
             /\ \E k \in DigestsWith(id) : dispatched[k].run = r

(***************************************************************************)
(* C21.  As stated: in a run of runScraper at most one external call is in *)
(* flight at any time, and none is in flight when the run has returned its *)
(* result or when the process exits.                                       *)
(***************************************************************************)
C21_OneCallNoneAtReturn ==
    scraper.pc # "idle" =>
        /\ Cardinality(scraper.inFlight) <= 1
        /\ scraper.pc \in {"returned", "failed"} => scraper.inFlight = {}
        /\ scraper.pc = "exited" => scraper.lost = {}

(***************************************************************************)
(* C22.  After the k-th failed call of fn, k below attempts, retry calls   *)
(* onRetry (when one is given) with k, the error of that call and the      *)
(* delay, and sleeps for that delay, baseDelay * 2^(k-1), before it calls  *)
(* fn again: every sleep is twice the one before, 500 then 1000 with 3     *)
(* attempts and a base of 500.  Nothing is observed and no sleep is made   *)
(* after a call that succeeded or after the last failed call.              *)
(***************************************************************************)
FailedCalls == {k \in 1..Len(fnCalls) : ~fnCalls[k].ok}

\* the failed calls that are followed by another call
RetriedCalls == {k \in FailedCalls : k < attempts}

C22_BackoffDoubles ==
    /\ FailedCalls = 1..Cardinality(FailedCalls)
    /\ Len(observed) = (IF hasOnRetry THEN Cardinality(RetriedCalls) ELSE 0)
    /\ \A k \in 1..Len(observed) :
         observed[k] = [attempt |-> k, err |-> fnCalls[k].err,
                        delay |-> baseDelay * (2 ^ (k - 1))]
    /\ Len(sleeps) = (IF retryPc = "sleep" THEN Cardinality(RetriedCalls) - 1
                      ELSE Cardinality(RetriedCalls))
    /\ \A k \in 1..Len(sleeps) :
         /\ sleeps[k] = baseDelay * (2 ^ (k - 1))
         /\ k > 1 => sleeps[k] = 2 * sleeps[k - 1]
    /\ (RetryDone /\ attempts = RETRY_ATTEMPTS /\ baseDelay = RETRY_BASE_DELAY
          /\ Cardinality(FailedCalls) >= 2) => sleeps = <<500, 1000>>

\* retry gave up after four failed calls with an observer: three sleeps,
\* each twice the one before
C22_Witness ==
    /\ retryPc = "raised"
    /\ hasOnRetry
    /\ Cardinality(FailedCalls) = 4
    /\ Len(sleeps) = 3
    /\ sleeps[3] = 4 * baseDelay
    /\ observed[3].delay = sleeps[3]

(***************************************************************************)
(* C23.  As stated: when a run is over, every record it wrote to the store *)
(* is listed in a notification that run handed to sendTelegram, also when  *)
(* a getDoc or setDoc call later in that run failed.                       *)
(***************************************************************************)
C23_WrittenIsNotified ==
    \A r \in Runs :
        Finished(r) =>
            \A k \in 1..Len(writes) :
                (writes[k].run = r /\ writes[k].ok) =>
                    \E g \in 1..Len(dispatched) :
                        /\ dispatched[g].run = r
                        /\ \E j \in 1..Len(dispatched[g].jobs) :
                             dispatched[g].jobs[j] = writes[k].job

(***************************************************************************)
(* C24: for every new record the three uses of its vacancy status agree:   *)
(* the isVacancy value stored with it, the flag that orders the digest,    *)
(* and the status on its notification line (available, or taken by the     *)
(* named holder) are all true or all false, whatever the holder name, the  *)
(* empty string included.                                                  *)
(***************************************************************************)
C24_VacancyUsesAgree ==
    \A g \in 1..Len(dispatched) :
        dispatched[g].kind = "digest" =>
            \A k \in 1..Len(dispatched[g].jobs) :
                LET j == dispatched[g].jobs[k]
                    shownVacant == jobStatus(j) = "**AVAILABLE / UNASSIGNED**"
                IN /\ IsVacancy(j) = shownVacant
                   /\ JobIdOf(j) \in DOMAIN store =>
                          store[JobIdOf(j)].isVacancy = shownVacant

====
